---- MODULE Spec2Model ----
(***************************************************************************)
(* Verification model of the agent orchestration core:                     *)
(*   - ToolService (app/services/tool_service.py): parameter validation,   *)
(*     execution records, the background webhook task and the polling wait *)
(*   - AgentRegistry (app/agents/registry.py): the live runtimes, reload   *)
(*     from the configuration store, and route_task                        *)
(* Python coroutines are run by one event loop: an action of the model is  *)
(* the code executed between two suspension points.                        *)
(***************************************************************************)
EXTENDS Integers, Sequences, FiniteSets, TLC

VARIABLES
    executions,     \* tool_executions table: Seq of ToolExecution rows, id = index
    webhook_tasks,  \* per execution: position of its _send_webhook task
    requests,       \* webhook POSTs received by the endpoint: Seq of [exec, payload]
    call_log,       \* history of execute_tool calls and what each returned
    waits,          \* wait_for_execution calls: Seq of [exec, timeout, elapsed, pc, ...]
    configs,        \* agent_configs table: agent_id -> row (present or not)
    agents,         \* AgentRegistry.agents: the dict as its ordered items (runtimes)
    collaboration,  \* AgentRegistry.collaboration is set (it shares the agents dict)
    next_inst,      \* identity given to the next DynamicAgent constructed
    last_op,        \* the registry operation that ran last, and its argument
    route_log,      \* history of route_task calls and what each did
    chat_log,       \* history of send_message_to_agent calls and their execute call
    classified,     \* the classifier call made last: its text and its result
    calls_made,     \* number of classifier calls made so far
    tool_reply,     \* the reply of _handle_tool_usage carrying a tool marker
    parsed,         \* what _handle_tool_request recovered from tool_reply
    synthesis,      \* the _synthesize_results call made last, and what came of it
    added           \* history of add_to_memory calls: Seq of [inst, interaction]

toolVars == <<executions, webhook_tasks, requests, call_log, waits>>

regVars == <<configs, agents, collaboration, next_inst, last_op, route_log>>

chatVars == <<chat_log>>

classVars == <<classified, calls_made>>

markerVars == <<tool_reply, parsed>>

synthVars == <<synthesis>>

memVars == <<added>>

auxVars == <<chat_log, classified, calls_made, tool_reply, parsed, synthesis, added>>

vars == <<executions, webhook_tasks, requests, call_log, waits,
          configs, agents, collaboration, next_inst, last_op, route_log,
          chat_log, classified, calls_made, tool_reply, parsed, synthesis, added>>

----------------------------------------------------------------------------
(* Bounds of the model                                                      *)

MaxCalls == 1
MaxWaits == 2
MaxInst == 2
MaxRoutes == 1
MaxMessages == 2
MaxClassified == 2
MaxAdded == 22
MaxFailed == 1
MaxNotes == 1

\* the timeouts (in seconds) given to wait_for_execution
WaitTimeouts == {0, 2}

----------------------------------------------------------------------------
(* Python values: a value is its type and the characters of str(value)      *)

NoneV == [py |-> "NoneType", text |-> <<"N", "o", "n", "e">>]
StrEmail == [py |-> "str", text |-> <<"b", "@", "x">>]
StrHi == [py |-> "str", text |-> <<"H", "i">>]
StrDigits == [py |-> "str", text |-> <<"4", "2">>]
Int42 == [py |-> "int", text |-> <<"4", "2">>]
Int1 == [py |-> "int", text |-> <<"1">>]

\* "@" in str(value)
ContainsAt(value) == \E i \in 1..Len(value.text) : value.text[i] = "@"

\* isinstance(value, (int, float))
IsIntOrFloat(value) == value.py \in {"int", "float"}

----------------------------------------------------------------------------
(* Tool.parameters_schema: ordered items; "required" and "default" keys may *)
(* be absent from a parameter's schema                                      *)

ParamNames == {"to", "subject", "count", "cc"}

\* the example schema of models/tool.py
GmailSchema ==
    << [name |-> "to", type |-> "email", required |-> "true",
        has_default |-> FALSE, default |-> NoneV],
       [name |-> "subject", type |-> "string", required |-> "true",
        has_default |-> FALSE, default |-> NoneV] >>

CounterSchema ==
    << [name |-> "count", type |-> "number", required |-> "false",
        has_default |-> TRUE, default |-> Int1],
       [name |-> "cc", type |-> "email", required |-> "absent",
        has_default |-> TRUE, default |-> StrEmail],
       [name |-> "subject", type |-> "string", required |-> "false",
        has_default |-> FALSE, default |-> NoneV] >>

\* a schema whose parameter is marked required and declares a default
DigestSchema ==
    << [name |-> "subject", type |-> "string", required |-> "true",
        has_default |-> TRUE, default |-> StrHi] >>

\* tools and user_tools tables, read-only here
ToolTable ==
    [ gmail   |-> [exists |-> TRUE,  webhook_url |-> TRUE,  schema |-> GmailSchema],
      counter |-> [exists |-> TRUE,  webhook_url |-> TRUE,  schema |-> CounterSchema],
      digest  |-> [exists |-> TRUE,  webhook_url |-> TRUE,  schema |-> DigestSchema],
      nohook  |-> [exists |-> TRUE,  webhook_url |-> FALSE, schema |-> GmailSchema],
      ghost   |-> [exists |-> FALSE, webhook_url |-> FALSE, schema |-> <<>>] ]

ToolIds == DOMAIN ToolTable

\* a parameters dict: name -> value, NoneV where the key is absent
\* (parameters.get(name) gives None for both)
NoParams == [n \in ParamNames |-> NoneV]

ParamInputs ==
    { NoParams,
      [NoParams EXCEPT !["subject"] = StrHi],
      [NoParams EXCEPT !["to"] = StrEmail, !["subject"] = StrHi],
      [NoParams EXCEPT !["to"] = StrHi, !["subject"] = StrHi],
      [NoParams EXCEPT !["count"] = Int42, !["cc"] = StrEmail],
      [NoParams EXCEPT !["count"] = StrDigits, !["cc"] = StrEmail],
      [NoParams EXCEPT !["cc"] = StrEmail] }

\* the calls of execute_tool the model makes: a tool and a parameters dict
\* that names parameters of that tool's schema
CallInputs ==
    { c \in [tool_id : ToolIds, parameters : ParamInputs] :
        \/ /\ c.tool_id = "gmail"
           /\ c.parameters["count"] = NoneV /\ c.parameters["cc"] = NoneV
        \/ /\ c.tool_id = "counter"
           /\ c.parameters["to"] = NoneV /\ c.parameters["subject"] = NoneV
        \/ /\ c.tool_id = "digest"
           /\ c.parameters \in {NoParams, [NoParams EXCEPT !["subject"] = StrHi]}
        \/ /\ c.tool_id \in {"nohook", "ghost"}
           /\ c.parameters["to"] = StrEmail }

\* param_schema.get("required", True)
SchemaRequired(param_schema) == param_schema.required # "false"

\* variant: the `required` test is missing
ValidateOneNoRequiredTest(parameters, param_schema) ==
    LET value0 == parameters[param_schema.name]
        value == IF value0 = NoneV /\ param_schema.has_default
                 THEN param_schema.default ELSE value0
    IN  IF value # NoneV /\ param_schema.type = "email" /\ ~ContainsAt(value)
        THEN [ok |-> FALSE, error |-> <<"Invalid email", param_schema.name>>,
              value |-> NoneV]
        ELSE IF value # NoneV /\ param_schema.type = "number" /\ ~IsIntOrFloat(value)
        THEN [ok |-> FALSE, error |-> <<"Invalid number", param_schema.name>>,
              value |-> NoneV]
        ELSE [ok |-> TRUE, error |-> <<>>, value |-> value]

\* one iteration of the loop of _validate_parameters: the value stored for
\* the parameter, or the ValueError raised
ValidateOne(parameters, param_schema) ==
    LET value0 == parameters[param_schema.name]
        value == IF value0 = NoneV /\ param_schema.has_default
                 THEN param_schema.default ELSE value0
    IN  IF SchemaRequired(param_schema) /\ value0 = NoneV
        THEN [ok |-> FALSE, error |-> <<"Required parameter missing", param_schema.name>>,
              value |-> NoneV]
        ELSE IF value # NoneV /\ param_schema.type = "email" /\ ~ContainsAt(value)
        THEN [ok |-> FALSE, error |-> <<"Invalid email", param_schema.name>>,
              value |-> NoneV]
        ELSE IF value # NoneV /\ param_schema.type = "number" /\ ~IsIntOrFloat(value)
        THEN [ok |-> FALSE, error |-> <<"Invalid number", param_schema.name>>,
              value |-> NoneV]
        ELSE [ok |-> TRUE, error |-> <<>>, value |-> value]

RECURSIVE ValidateFrom(_, _, _, _)
ValidateFrom(parameters, schema, i, validated) ==
    IF i > Len(schema)
    THEN [ok |-> TRUE, error |-> <<>>, validated |-> validated]
    ELSE LET r == ValidateOne(parameters, schema[i])
         IN  IF ~r.ok
             THEN [ok |-> FALSE, error |-> r.error, validated |-> <<>>]
             ELSE ValidateFrom(parameters, schema, i + 1,
                               Append(validated, [name |-> schema[i].name, value |-> r.value]))

\* _validate_parameters(parameters, schema): the validated dict as its ordered
\* items, or the ValueError
ValidateParameters(parameters, schema) == ValidateFrom(parameters, schema, 1, <<>>)

----------------------------------------------------------------------------
(* execute_tool: has no suspension point, so the whole call is one step.   *)
(* asyncio.create_task only schedules _send_webhook: the task has not      *)
(* started when the call returns.                                          *)

NoOutcome == [kind |-> "none", status_code |-> 0, json_ok |-> FALSE, exc |-> "none"]

\* variant: the request is issued before execute_tool returns
CreateTaskStarted == [pc |-> "posting", outcome |-> NoOutcome]

\* asyncio.create_task(self._send_webhook(...)): a task that has not run yet
CreateTask == [pc |-> "scheduled", outcome |-> NoOutcome]

NewExecution(tool_id, validated, call) ==
    [tool_id |-> tool_id, request_payload |-> validated, status |-> "pending",
     response_data |-> NoneV, error_message |-> <<>>, completed_at |-> FALSE,
     call |-> call]

\* what execute_tool does for one call: raise ValueError, or add the row and
\* schedule the task
ExecuteToolResult(tool_id, parameters) ==
    LET tool == ToolTable[tool_id]
        v == ValidateParameters(parameters, tool.schema)
    IN  IF ~tool.exists THEN [raised |-> TRUE, error |-> <<"Tool not found">>, validated |-> <<>>]
        ELSE IF ~tool.webhook_url
        THEN [raised |-> TRUE, error |-> <<"User has not configured this tool">>,
              validated |-> <<>>]
        ELSE IF ~v.ok THEN [raised |-> TRUE, error |-> v.error, validated |-> <<>>]
        ELSE [raised |-> FALSE, error |-> <<>>, validated |-> v.validated]

ExecuteTool(tool_id, parameters) ==
    /\ Len(call_log) < MaxCalls
    /\ LET r == ExecuteToolResult(tool_id, parameters)
           call == Len(call_log) + 1
           id == Len(executions) + 1
       IN  IF r.raised
           THEN /\ call_log' = Append(call_log,
                        [tool_id |-> tool_id, parameters |-> parameters, raised |-> TRUE,
                         error |-> r.error, execution |-> 0,
                         returned_status |-> "none", task_at_return |-> "none"])
                /\ UNCHANGED <<executions, webhook_tasks, requests>>
           ELSE /\ executions' = Append(executions, NewExecution(tool_id, r.validated, call))
                /\ webhook_tasks' = Append(webhook_tasks, CreateTask)
                /\ call_log' = Append(call_log,
                        [tool_id |-> tool_id, parameters |-> parameters, raised |-> FALSE,
                         error |-> <<>>, execution |-> id,
                         returned_status |-> executions'[id].status,
                         task_at_return |-> webhook_tasks'[id].pc])
                /\ UNCHANGED requests
    /\ UNCHANGED waits

----------------------------------------------------------------------------
(* _send_webhook: runs to `await client.post(...)`, then from the answer   *)
(* (or the exception) to its end                                           *)

WebhookSend(e) ==
    /\ e \in 1..Len(webhook_tasks)
    /\ webhook_tasks[e].pc = "scheduled"
    /\ webhook_tasks' = [webhook_tasks EXCEPT ![e].pc = "posting"]
    /\ requests' = Append(requests, [exec |-> e, payload |-> executions[e].request_payload])
    /\ UNCHANGED <<executions, call_log, waits>>

\* what `await client.post` can give: a response, or an exception of httpx.
\* httpx reports its timeouts as httpx.TimeoutException (ReadTimeout, ...),
\* which is not asyncio.TimeoutError.
HttpStatusCodes == {200, 404, 500}

\* f"{response.status_code}"
CodeText(status_code) ==
    CASE status_code = 200 -> "200"
      [] status_code = 404 -> "404"
      [] status_code = 500 -> "500"
      [] OTHER -> "0"

\* json_ok: response.json() parses the body (read only on a 200)
PostOutcomes ==
    [kind : {"response"}, status_code : HttpStatusCodes, json_ok : {TRUE}, exc : {"none"}]
    \cup [kind : {"response"}, status_code : {200}, json_ok : {FALSE}, exc : {"none"}]
    \cup [kind : {"raise"}, status_code : {0}, json_ok : {FALSE},
          exc : {"httpx.ConnectError", "httpx.ReadTimeout"}]

\* the except clause that catches an exception raised in the try block
IsAsyncioTimeoutError(exc) == exc = "asyncio.TimeoutError"

\* the fields _send_webhook writes for one outcome of the request
SendWebhookUpdate(row, outcome) ==
    LET exc == IF outcome.kind = "raise" THEN outcome.exc
               ELSE IF outcome.status_code = 200 /\ ~outcome.json_ok
               THEN "json.JSONDecodeError" ELSE "none"
    IN  IF exc = "none" /\ outcome.status_code = 200
        THEN [row EXCEPT !.status = "success", !.response_data = StrHi,
                         !.completed_at = TRUE]
        ELSE IF exc = "none"
        THEN [row EXCEPT !.status = "failed",
                         !.error_message = <<"HTTP ", CodeText(outcome.status_code), ": ", "body">>,
                         !.completed_at = TRUE]
        ELSE IF IsAsyncioTimeoutError(exc)
        THEN [row EXCEPT !.status = "timeout",
                         !.error_message = <<"Webhook request timed out">>,
                         !.completed_at = TRUE]
        ELSE [row EXCEPT !.status = "failed", !.error_message = <<exc>>,
                         !.completed_at = TRUE]

\* variant: a failed request is sent again
TaskAfterPostRetry(outcome) ==
    IF outcome.kind = "raise" \/ outcome.status_code # 200 THEN "scheduled" ELSE "done"

\* _send_webhook ends after its handlers: there is no retry loop
TaskAfterPost(outcome) == "done"

WebhookResolve(e, outcome) ==
    /\ e \in 1..Len(webhook_tasks)
    /\ webhook_tasks[e].pc = "posting"
    /\ webhook_tasks' = [webhook_tasks EXCEPT ![e] = [pc |-> TaskAfterPost(outcome),
                                                      outcome |-> outcome]]
    /\ executions' = [executions EXCEPT ![e] = SendWebhookUpdate(executions[e], outcome)]
    /\ UNCHANGED <<requests, call_log, waits>>

----------------------------------------------------------------------------
(* wait_for_execution: polls the row once a second.  Between two sleeps    *)
(* the loop test, the query and the status test run without suspension.    *)

\* timedelta.seconds: the seconds component of the elapsed time
SecondsOf(elapsed) == elapsed % 86400

\* variant: the loop runs while elapsed <= timeout
WaitExpiredOffByOne(elapsed, timeout) == ~(SecondsOf(elapsed) <= timeout)

\* the `while` test failing
WaitExpired(elapsed, timeout) == ~(SecondsOf(elapsed) < timeout)

\* the row after the lines below the loop
ForceTimeout(row) ==
    [row EXCEPT !.status = "timeout", !.error_message = <<"Execution timeout">>,
                !.completed_at = TRUE]

\* from the loop test to the next sleep or to the return, for wait w
WaitLoop(w, ws) ==
    LET e == ws[w].exec
    IN  IF WaitExpired(ws[w].elapsed, ws[w].timeout)
        THEN /\ executions' = [executions EXCEPT ![e] = ForceTimeout(executions[e])]
             /\ waits' = [ws EXCEPT ![w].pc = "returned", ![w].forced = TRUE,
                                     ![w].returned_status = executions'[e].status]
        ELSE IF executions[e].status # "pending"
        THEN /\ waits' = [ws EXCEPT ![w].pc = "returned",
                                     ![w].returned_status = executions[e].status]
             /\ UNCHANGED executions
        ELSE /\ waits' = [ws EXCEPT ![w].pc = "sleeping"]
             /\ UNCHANGED executions

WaitForExecution(e, timeout) ==
    /\ Len(waits) < MaxWaits
    /\ e \in 1..Len(executions)
    /\ WaitLoop(Len(waits) + 1,
                Append(waits, [exec |-> e, timeout |-> timeout, elapsed |-> 0,
                               pc |-> "start", forced |-> FALSE,
                               returned_status |-> "none"]))
    /\ UNCHANGED <<webhook_tasks, requests, call_log>>

\* asyncio.sleep(1) is over
WaitWake(w) ==
    /\ w \in 1..Len(waits)
    /\ waits[w].pc = "sleeping"
    /\ WaitLoop(w, [waits EXCEPT ![w].elapsed = @ + 1])
    /\ UNCHANGED <<webhook_tasks, requests, call_log>>

----------------------------------------------------------------------------
ToolInit ==
    /\ executions = <<>>
    /\ webhook_tasks = <<>>
    /\ requests = <<>>
    /\ call_log = <<>>
    /\ waits = <<>>

DoExecuteTool ==
    /\ \E c \in CallInputs : ExecuteTool(c.tool_id, c.parameters)
    /\ UNCHANGED <<regVars, auxVars>>

DoWebhookSend ==
    /\ \E e \in 1..Len(webhook_tasks) : WebhookSend(e)
    /\ UNCHANGED <<regVars, auxVars>>

DoWebhookResolve ==
    /\ \E e \in 1..Len(webhook_tasks), outcome \in PostOutcomes : WebhookResolve(e, outcome)
    /\ UNCHANGED <<regVars, auxVars>>

DoWaitForExecution ==
    /\ \E e \in 1..Len(executions), timeout \in WaitTimeouts : WaitForExecution(e, timeout)
    /\ UNCHANGED <<regVars, auxVars>>

DoWaitWake ==
    /\ \E w \in 1..Len(waits) : WaitWake(w)
    /\ UNCHANGED <<regVars, auxVars>>

ToolNext ==
    \/ DoExecuteTool
    \/ DoWebhookSend
    \/ DoWebhookResolve
    \/ DoWaitForExecution
    \/ DoWaitWake

----------------------------------------------------------------------------
(* Request texts are sequences of characters; `word in text` of Python is   *)
(* substring search.                                                        *)

UpperChars == <<"A", "B", "C", "D", "E", "F", "G", "H", "I", "J", "K", "L", "M", "N", "O", "P", "Q", "R", "S", "T", "U", "V", "W", "X", "Y", "Z">>
LowerChars == <<"a", "b", "c", "d", "e", "f", "g", "h", "i", "j", "k", "l", "m", "n", "o", "p", "q", "r", "s", "t", "u", "v", "w", "x", "y", "z">>

\* str.lower() on one character
LowerChar(c) ==
    IF \E i \in 1..Len(UpperChars) : UpperChars[i] = c
    THEN LowerChars[CHOOSE i \in 1..Len(UpperChars) : UpperChars[i] = c]
    ELSE c

\* task.lower()
Lower(text) == [i \in 1..Len(text) |-> LowerChar(text[i])]

\* word in text
Contains(text, word) ==
    \E i \in 0..(Len(text) - Len(word)) :
        \A j \in 1..Len(word) : text[i + j] = word[j]

\* any(word in text for word in words)
AnyIn(words, text) == \E k \in 1..Len(words) : Contains(text, words[k])

\* "Write a blog post about coffee"
TextBlog == <<"W", "r", "i", "t", "e", " ", "a", " ", "b", "l", "o", "g", " ", "p", "o", "s", "t", " ", "a", "b", "o", "u", "t", " ", "c", "o", "f", "f", "e", "e">>

\* "Write a blog post about coffee and email it to bob@x.com"
TextBlogEmail == <<"W", "r", "i", "t", "e", " ", "a", " ", "b", "l", "o", "g", " ", "p", "o", "s", "t", " ", "a", "b", "o", "u", "t", " ", "c", "o", "f", "f", "e", "e", " ", "a", "n", "d", " ", "e", "m", "a", "i", "l", " ", "i", "t", " ", "t", "o", " ", "b", "o", "b", "@", "x", ".", "c", "o", "m">>

\* "Hi"
TextHello == <<"H", "i">>

\* "Research a campaign plan"
TextCampaign == <<"R", "e", "s", "e", "a", "r", "c", "h", " ", "a", " ", "c", "a", "m", "p", "a", "i", "g", "n", " ", "p", "l", "a", "n">>

RequestTexts == {TextBlog, TextBlogEmail, TextHello, TextCampaign}

\* one word per specialty, as a user would type it
Keywords ==
    <<<<"e", "m", "a", "i", "l">>,
      <<"b", "l", "o", "g">>,
      <<"T", "w", "i", "t", "t", "e", "r">>,
      <<"r", "e", "s", "e", "a", "r", "c", "h">>,
      <<"c", "a", "m", "p", "a", "i", "g", "n">>,
      <<"c", "o", "m", "p", "l", "a", "i", "n", "t">>,
      <<"b", "u", "s", "i", "n", "e", "s", "s">>,
      <<"g", "u", "i", "d", "e">>,
      <<"s", "c", "h", "e", "d", "u", "l", "e">>>>

Space == <<" ">>
WordAnd == <<"a", "n", "d">>

\* the texts given to the classifiers: the request texts, every keyword alone,
\* every two keywords, and every two keywords joined by "and"
ClassifierTexts ==
    RequestTexts
    \cup {Keywords[i] : i \in 1..Len(Keywords)}
    \cup {Keywords[i] \o Space \o Keywords[j] :
              i \in 1..Len(Keywords), j \in 1..Len(Keywords)}
    \cup {Keywords[i] \o Space \o WordAnd \o Space \o Keywords[j] :
              i \in 1..Len(Keywords), j \in 1..Len(Keywords)}

\* the keyword lists of _route_to_specialist, in the order of its branches
RouteWordsJasmine ==
    <<<<"e", "m", "a", "i", "l">>,
       <<"m", "a", "i", "l">>,
       <<"m", "e", "s", "s", "a", "g", "e">>,
       <<"l", "e", "t", "t", "e", "r">>,
       <<"c", "o", "r", "r", "e", "s", "p", "o", "n", "d", "e", "n", "c", "e">>,
       <<"s", "e", "n", "d", " ", "t", "o">>>>

RouteWordsTerrell ==
    <<<<"a", "r", "t", "i", "c", "l", "e">>,
       <<"b", "l", "o", "g">>,
       <<"c", "o", "n", "t", "e", "n", "t">>,
       <<"w", "r", "i", "t", "e">>,
       <<"p", "o", "s", "t">>,
       <<"s", "t", "o", "r", "y">>,
       <<"e", "s", "s", "a", "y">>>>

RouteWordsIndia ==
    <<<<"s", "o", "c", "i", "a", "l", " ", "m", "e", "d", "i", "a">>,
       <<"t", "w", "i", "t", "t", "e", "r">>,
       <<"f", "a", "c", "e", "b", "o", "o", "k">>,
       <<"i", "n", "s", "t", "a", "g", "r", "a", "m">>,
       <<"l", "i", "n", "k", "e", "d", "i", "n">>,
       <<"t", "w", "e", "e", "t">>,
       <<"p", "o", "s", "t", " ", "o", "n">>,
       <<"s", "o", "c", "i", "a", "l", " ", "p", "o", "s", "t">>>>

RouteWordsDeandre ==
    <<<<"r", "e", "s", "e", "a", "r", "c", "h">>,
       <<"a", "n", "a", "l", "y", "z", "e">>,
       <<"i", "n", "v", "e", "s", "t", "i", "g", "a", "t", "e">>,
       <<"s", "t", "u", "d", "y">>,
       <<"d", "a", "t", "a">>,
       <<"m", "a", "r", "k", "e", "t">>,
       <<"f", "i", "n", "d", " ", "o", "u", "t">>,
       <<"l", "o", "o", "k", " ", "i", "n", "t", "o">>>>

RouteWordsAmara ==
    <<<<"s", "u", "p", "p", "o", "r", "t">>,
       <<"c", "u", "s", "t", "o", "m", "e", "r", " ", "s", "e", "r", "v", "i", "c", "e">>,
       <<"h", "e", "l", "p", " ", "d", "e", "s", "k">>,
       <<"c", "u", "s", "t", "o", "m", "e", "r">>,
       <<"c", "o", "m", "p", "l", "a", "i", "n", "t">>,
       <<"i", "s", "s", "u", "e">>>>

RouteWordsMalik ==
    <<<<"m", "a", "r", "k", "e", "t", "i", "n", "g">>,
       <<"c", "a", "m", "p", "a", "i", "g", "n">>,
       <<"s", "t", "r", "a", "t", "e", "g", "y">>,
       <<"p", "r", "o", "m", "o", "t", "e">>,
       <<"a", "d", "v", "e", "r", "t", "i", "s", "i", "n", "g">>,
       <<"m", "a", "r", "k", "e", "t">>,
       <<"s", "e", "o">>>>

RouteWordsZara ==
    <<<<"b", "u", "s", "i", "n", "e", "s", "s">>,
       <<"f", "i", "n", "a", "n", "c", "i", "a", "l">>,
       <<"m", "e", "t", "r", "i", "c", "s">>,
       <<"k", "p", "i">>,
       <<"a", "n", "a", "l", "y", "s", "i", "s">>,
       <<"r", "e", "v", "e", "n", "u", "e">>,
       <<"p", "r", "o", "f", "i", "t">>>>

RouteWordsIsaiah ==
    <<<<"t", "e", "c", "h", "n", "i", "c", "a", "l">>,
       <<"d", "o", "c", "u", "m", "e", "n", "t", "a", "t", "i", "o", "n">>,
       <<"g", "u", "i", "d", "e">>,
       <<"m", "a", "n", "u", "a", "l">>,
       <<"a", "p", "i">>,
       <<"t", "u", "t", "o", "r", "i", "a", "l">>,
       <<"h", "o", "w", "-", "t", "o">>>>

RouteWordsKeisha ==
    <<<<"p", "r", "o", "j", "e", "c", "t">>,
       <<"p", "l", "a", "n">>,
       <<"s", "c", "h", "e", "d", "u", "l", "e">>,
       <<"t", "i", "m", "e", "l", "i", "n", "e">>,
       <<"m", "i", "l", "e", "s", "t", "o", "n", "e">>,
       <<"t", "a", "s", "k">>,
       <<"o", "r", "g", "a", "n", "i", "z", "e">>>>

WordEmail == <<"e", "m", "a", "i", "l">>
WordMail == <<"m", "a", "i", "l">>

NoAgent == "None"

\* variant: the keywords are searched in the text as typed
RouteToSpecialistAsTyped(task) ==
    LET task_lower == task
    IN  IF AnyIn(RouteWordsJasmine, task_lower) THEN "jasmine"
        ELSE IF AnyIn(RouteWordsTerrell, task_lower)
        THEN (IF ~Contains(task_lower, WordEmail) /\ ~Contains(task_lower, WordMail)
              THEN "terrell" ELSE NoAgent)
        ELSE IF AnyIn(RouteWordsIndia, task_lower) THEN "india"
        ELSE IF AnyIn(RouteWordsDeandre, task_lower) THEN "deandre"
        ELSE IF AnyIn(RouteWordsAmara, task_lower) THEN "amara"
        ELSE IF AnyIn(RouteWordsMalik, task_lower) THEN "malik"
        ELSE IF AnyIn(RouteWordsZara, task_lower) THEN "zara"
        ELSE IF AnyIn(RouteWordsIsaiah, task_lower) THEN "isaiah"
        ELSE IF AnyIn(RouteWordsKeisha, task_lower) THEN "keisha"
        ELSE NoAgent

\* _route_to_specialist(task): the id of a specialist, or None
RouteToSpecialist(task) ==
    LET task_lower == Lower(task)
    IN  IF AnyIn(RouteWordsJasmine, task_lower) THEN "jasmine"
        ELSE IF AnyIn(RouteWordsTerrell, task_lower)
        THEN (IF ~Contains(task_lower, WordEmail) /\ ~Contains(task_lower, WordMail)
              THEN "terrell" ELSE NoAgent)
        ELSE IF AnyIn(RouteWordsIndia, task_lower) THEN "india"
        ELSE IF AnyIn(RouteWordsDeandre, task_lower) THEN "deandre"
        ELSE IF AnyIn(RouteWordsAmara, task_lower) THEN "amara"
        ELSE IF AnyIn(RouteWordsMalik, task_lower) THEN "malik"
        ELSE IF AnyIn(RouteWordsZara, task_lower) THEN "zara"
        ELSE IF AnyIn(RouteWordsIsaiah, task_lower) THEN "isaiah"
        ELSE IF AnyIn(RouteWordsKeisha, task_lower) THEN "keisha"
        ELSE NoAgent

\* the keyword lists of _analyze_collaboration_need, in the order of its tests
NeedWords_email ==
    <<<<"e", "m", "a", "i", "l">>,
       <<"m", "a", "i", "l">>,
       <<"m", "e", "s", "s", "a", "g", "e">>,
       <<"l", "e", "t", "t", "e", "r">>>>

NeedWords_content ==
    <<<<"a", "r", "t", "i", "c", "l", "e">>,
       <<"b", "l", "o", "g">>,
       <<"c", "o", "n", "t", "e", "n", "t">>,
       <<"w", "r", "i", "t", "e">>,
       <<"p", "o", "s", "t">>>>

NeedWords_social_media ==
    <<<<"s", "o", "c", "i", "a", "l", " ", "m", "e", "d", "i", "a">>,
       <<"t", "w", "i", "t", "t", "e", "r">>,
       <<"f", "a", "c", "e", "b", "o", "o", "k">>,
       <<"i", "n", "s", "t", "a", "g", "r", "a", "m">>,
       <<"l", "i", "n", "k", "e", "d", "i", "n">>,
       <<"s", "o", "c", "i", "a", "l", " ", "p", "o", "s", "t">>>>

NeedWords_research ==
    <<<<"r", "e", "s", "e", "a", "r", "c", "h">>,
       <<"a", "n", "a", "l", "y", "z", "e">>,
       <<"i", "n", "v", "e", "s", "t", "i", "g", "a", "t", "e">>,
       <<"s", "t", "u", "d", "y">>,
       <<"d", "a", "t", "a">>>>

NeedWords_marketing ==
    <<<<"m", "a", "r", "k", "e", "t", "i", "n", "g">>,
       <<"c", "a", "m", "p", "a", "i", "g", "n">>,
       <<"s", "t", "r", "a", "t", "e", "g", "y">>,
       <<"p", "r", "o", "m", "o", "t", "e">>,
       <<"a", "d", "v", "e", "r", "t", "i", "s", "i", "n", "g">>>>

NeedWords_customer_support ==
    <<<<"s", "u", "p", "p", "o", "r", "t">>,
       <<"h", "e", "l", "p", " ", "c", "u", "s", "t", "o", "m", "e", "r">>,
       <<"c", "u", "s", "t", "o", "m", "e", "r", " ", "s", "e", "r", "v", "i", "c", "e">>,
       <<"c", "o", "m", "p", "l", "a", "i", "n", "t">>>>

NeedWords_business ==
    <<<<"b", "u", "s", "i", "n", "e", "s", "s">>,
       <<"a", "n", "a", "l", "y", "s", "i", "s">>,
       <<"f", "i", "n", "a", "n", "c", "i", "a", "l">>,
       <<"m", "e", "t", "r", "i", "c", "s">>,
       <<"k", "p", "i">>>>

NeedWords_technical ==
    <<<<"t", "e", "c", "h", "n", "i", "c", "a", "l">>,
       <<"d", "o", "c", "u", "m", "e", "n", "t", "a", "t", "i", "o", "n">>,
       <<"g", "u", "i", "d", "e">>,
       <<"m", "a", "n", "u", "a", "l">>,
       <<"a", "p", "i">>>>

NeedWords_management ==
    <<<<"p", "r", "o", "j", "e", "c", "t">>,
       <<"p", "l", "a", "n">>,
       <<"s", "c", "h", "e", "d", "u", "l", "e">>,
       <<"t", "i", "m", "e", "l", "i", "n", "e">>,
       <<"o", "r", "g", "a", "n", "i", "z", "e">>>>

multi_indicators ==
    <<<<"a", "n", "d">>,
       <<"a", "l", "s", "o">>,
       <<"p", "l", "u", "s">>,
       <<"a", "l", "o", "n", "g", " ", "w", "i", "t", "h">>,
       <<"a", "s", " ", "w", "e", "l", "l", " ", "a", "s">>,
       <<"b", "o", "t", "h">>,
       <<"t", "o", "g", "e", "t", "h", "e", "r", " ", "w", "i", "t", "h">>,
       <<"c", "o", "m", "b", "i", "n", "e", "d", " ", "w", "i", "t", "h">>,
       <<"i", "n", "c", "l", "u", "d", "i", "n", "g">>>>

\* the specialties in the order of the tests of _analyze_collaboration_need
Specialties ==
    <<"email", "content", "social_media", "research", "marketing",
      "customer_support", "business", "technical", "management">>

NeedWords ==
    [email |-> NeedWords_email, content |-> NeedWords_content,
     social_media |-> NeedWords_social_media, research |-> NeedWords_research,
     marketing |-> NeedWords_marketing, customer_support |-> NeedWords_customer_support,
     business |-> NeedWords_business, technical |-> NeedWords_technical,
     management |-> NeedWords_management]

\* one test of _analyze_collaboration_need: the specialty is appended when
\* one of its words occurs; content only if 'email' was not appended before
NeedMatches(specialty, task_lower) ==
    /\ AnyIn(NeedWords[specialty], task_lower)
    /\ specialty = "content" => ~AnyIn(NeedWords_email, task_lower)

\* variant: many specialties without a multi-indicator word are not enough
NeedResultIndicatorOnly(required_agents, has_multi_indicator) ==
    [needs_help |-> Len(required_agents) > 1 /\ has_multi_indicator,
     required_agents |-> required_agents]

\* needs_multiple and the dict returned
NeedResult(required_agents, has_multi_indicator) ==
    [needs_help |-> Len(required_agents) > 1
                    /\ (has_multi_indicator \/ Len(required_agents) > 2),
     required_agents |-> required_agents]

\* _analyze_collaboration_need(task)
AnalyzeCollaborationNeed(task) ==
    LET Appended(specialty) == NeedMatches(specialty, Lower(task))
    IN  NeedResult(SelectSeq(Specialties, Appended), AnyIn(multi_indicators, Lower(task)))

----------------------------------------------------------------------------
(* BaseAgent / DynamicAgent: one runtime.  llm_service.generate_response   *)
(* calls the provider synchronously, so execute runs without suspension.   *)

MemoryLimit == 20

NoTask == "None"

\* variant: the slice keeps the first entries, self.memory[:20]
add_to_memory_keep_first(memory, interaction) ==
    LET appended == Append(memory, interaction)
    IN  IF Len(appended) > MemoryLimit THEN SubSeq(appended, 1, MemoryLimit) ELSE appended

\* BaseAgent.add_to_memory
add_to_memory(memory, interaction) ==
    LET appended == Append(memory, interaction)
    IN  IF Len(appended) > MemoryLimit
        THEN SubSeq(appended, Len(appended) - MemoryLimit + 1, Len(appended))
        ELSE appended

\* DynamicAgent(agent_id=..., ...): the runtime built from a config row
DynamicAgent(agent_id, row, inst) ==
    [inst |-> inst, agent_id |-> agent_id, system_prompt |-> row.system_prompt,
     has_tools |-> row.has_tools, status |-> "idle", current_task |-> NoTask,
     tasks_completed |-> 0, tasks_failed |-> 0, memory |-> <<>>]

\* what the provider can answer to one generate_response call: an exception,
\* text that is not JSON, or a JSON object with use_tool true / false
LlmReplies == {"error", "garbage", "json_true", "json_false"}

\* DynamicAgent.should_use_tool: the decision, or None
should_use_tool(agent, decision_reply) ==
    IF ~agent.has_tools THEN "None"
    ELSE IF decision_reply = "json_true" THEN "use_tool"
    ELSE "None"

\* the texts a runtime can return, as sequences of their parts
DraftText == <<"draft">>
MarkerText == <<"I'll help you with that using", "tool_name", "[TOOL:tool_name:tool_params]">>
ConfigureText == <<"I'd like to use the", "tool_name", "tool, but I need you to configure it first">>
NoText == <<>>

\* what process_task gives when the provider call raises
Raised == [raised |-> TRUE, exc |-> "Exception", type |-> "none", marker |-> FALSE,
           content |-> NoText]

\* DynamicAgent._process_normally
ProcessNormally(agent, reply) ==
    IF reply = "error" THEN Raised
    ELSE [raised |-> FALSE, exc |-> "none", type |-> "response", marker |-> FALSE,
          content |-> DraftText]

\* variant: an answer that is not JSON is not caught
HandleToolUsageNoFallback(agent, reply) ==
    IF reply = "error" THEN Raised
    ELSE IF reply = "garbage"
    THEN [Raised EXCEPT !.exc = "json.JSONDecodeError"]
    ELSE [raised |-> FALSE, exc |-> "none", type |-> "tool_request", marker |-> TRUE,
          content |-> MarkerText]

\* DynamicAgent._handle_tool_usage
HandleToolUsage(agent, reply) ==
    IF reply = "error" THEN Raised
    ELSE IF reply = "garbage"
    THEN [raised |-> FALSE, exc |-> "none", type |-> "response", marker |-> FALSE,
          content |-> ConfigureText]
    ELSE [raised |-> FALSE, exc |-> "none", type |-> "tool_request", marker |-> TRUE,
          content |-> MarkerText]

\* DynamicAgent.process_task
process_task(agent, replies) ==
    IF should_use_tool(agent, replies.d) = "use_tool"
    THEN HandleToolUsage(agent, replies.s)
    ELSE ProcessNormally(agent, replies.s)

\* the entry of execute: status busy, the task_start memory entry
Started(agent, task_id) ==
    [agent EXCEPT !.status = "busy", !.current_task = task_id,
                  !.memory = add_to_memory(@, [type |-> "task_start", task_id |-> task_id])]

\* the success path of execute
Completed(started, task_id) ==
    [started EXCEPT !.tasks_completed = @ + 1, !.status = "idle", !.current_task = NoTask,
                    !.memory = add_to_memory(@, [type |-> "task_complete",
                                                 task_id |-> task_id])]

\* variant: the handler counts the failure and leaves the status as it is
FailedStaysBusy(started) == [started EXCEPT !.tasks_failed = @ + 1]

\* the except path of execute
Failed(started) ==
    [started EXCEPT !.tasks_failed = @ + 1, !.status = "idle", !.current_task = NoTask]

\* variant: the handler of execute catches ValueError only
ExecuteCatchesValueError(exc) == exc = "ValueError"

\* except Exception as e: every exception process_task can raise is caught
ExecuteCatches(exc) == TRUE

\* what execute returns (or raises) once process_task has ended
ExecuteEnd(started, task_id, r) ==
    IF ~r.raised
    THEN [agent |-> Completed(started, task_id), raised |-> FALSE, success |-> TRUE,
          error |-> "", type |-> r.type, marker |-> r.marker, content |-> r.content,
          task_id |-> task_id, status_during |-> started.status]
    ELSE IF ExecuteCatches(r.exc)
    THEN [agent |-> Failed(started), raised |-> FALSE, success |-> FALSE,
          error |-> r.exc, type |-> "none", marker |-> FALSE, content |-> NoText,
          task_id |-> task_id, status_during |-> started.status]
    ELSE [agent |-> started, raised |-> TRUE, success |-> FALSE,
          error |-> r.exc, type |-> "none", marker |-> FALSE, content |-> NoText,
          task_id |-> task_id, status_during |-> started.status]

\* BaseAgent.execute(task): the runtime afterwards and the result returned
execute(agent, task_id, replies) ==
    ExecuteEnd(Started(agent, task_id), task_id,
               process_task(Started(agent, task_id), replies))

----------------------------------------------------------------------------
(* AgentRegistry                                                            *)

AgentIds == {"jasmine", "terrell"}

\* the ids in the order of their display_order column
OrderedIds == <<"terrell", "jasmine">>

\* allowed_tools of the row is not empty
RowHasTools == [jasmine |-> TRUE, terrell |-> FALSE]

\* capabilities=config.capabilities or []: the capabilities column of the row
RowCapabilities ==
    [jasmine |-> {"email_writing", "marketing_strategy"},
     terrell |-> {"article_writing", "research"}]

\* the values of the system_prompt column
Prompts == {"prompt-1", "prompt-2"}

NoRow == [present |-> FALSE, is_active |-> FALSE, constructs |-> TRUE,
          system_prompt |-> "", has_tools |-> FALSE]

NoRuntime == [inst |-> 0, agent_id |-> NoAgent, system_prompt |-> "", has_tools |-> FALSE,
              status |-> "idle", current_task |-> NoTask, tasks_completed |-> 0,
              tasks_failed |-> 0, memory |-> <<>>]

Registered(d, agent_id) == \E i \in 1..Len(d) : d[i].agent_id = agent_id

\* variant: the dict keeps the old entry and adds another one
DictSetAppend(d, agent) == Append(d, agent)

\* self.agents[agent.agent_id] = agent: an existing key keeps its position
DictSet(d, agent) ==
    IF Registered(d, agent.agent_id)
    THEN [i \in 1..Len(d) |-> IF d[i].agent_id = agent.agent_id THEN agent ELSE d[i]]
    ELSE Append(d, agent)

\* AgentRegistry.register_agent
register_agent(d, agent) == DictSet(d, agent)

\* AgentRegistry.unregister_agent
unregister_agent(d, agent_id) ==
    LET Other(a) == a.agent_id # agent_id
    IN  SelectSeq(d, Other)

\* AgentRegistry.get_agent: the runtime, or None
get_agent(d, agent_id) ==
    IF Registered(d, agent_id)
    THEN d[CHOOSE i \in 1..Len(d) : d[i].agent_id = agent_id]
    ELSE NoRuntime

\* db.query(AgentConfig).filter(is_active == True).order_by(display_order).all()
ActiveConfigs(store) ==
    LET Active(agent_id) == store[agent_id].present /\ store[agent_id].is_active
    IN  SelectSeq(OrderedIds, Active)

\* the loop of load_agents_from_db from the i-th config on; an exception
\* raised by a construction leaves the loop (the try block encloses it)
RECURSIVE LoadLoop(_, _, _, _, _)
LoadLoop(store, ids, i, d, inst) ==
    IF i > Len(ids) THEN [agents |-> d, next_inst |-> inst, raised |-> FALSE]
    ELSE IF ~store[ids[i]].constructs
    THEN [agents |-> d, next_inst |-> inst, raised |-> TRUE]
    ELSE LoadLoop(store, ids, i + 1,
                  register_agent(d, DynamicAgent(ids[i], store[ids[i]], inst)), inst + 1)

\* AgentRegistry.load_agents_from_db
load_agents_from_db(store, collab, inst) ==
    LET r == LoadLoop(store, ActiveConfigs(store), 1, <<>>, inst)
    IN  [agents |-> r.agents, next_inst |-> r.next_inst,
         collaboration |-> IF ~r.raised /\ Len(r.agents) > 0 THEN TRUE ELSE collab]

\* db.query(AgentConfig).filter(AgentConfig.agent_id == agent_id).first()
ReloadQuery(store, agent_id) == store[agent_id]

\* AgentRegistry.reload_agent
reload_agent(store, d, collab, inst, agent_id) ==
    LET config == ReloadQuery(store, agent_id)
    IN  IF ~config.present
        THEN [agents |-> unregister_agent(d, agent_id), next_inst |-> inst,
              collaboration |-> collab]
        ELSE IF ~config.constructs
        THEN [agents |-> d, next_inst |-> inst, collaboration |-> collab]
        ELSE [agents |-> register_agent(d, DynamicAgent(agent_id, config, inst)),
              next_inst |-> inst + 1, collaboration |-> TRUE]

Op(name, agent_id) == [op |-> name, agent_id |-> agent_id]

SetRegistry(r) ==
    /\ agents' = r.agents
    /\ next_inst' = r.next_inst
    /\ collaboration' = r.collaboration

\* startup_event, or any later call
LoadAgentsFromDb ==
    /\ load_agents_from_db(configs, collaboration, next_inst).next_inst <= MaxInst + 1
    /\ SetRegistry(load_agents_from_db(configs, collaboration, next_inst))
    /\ last_op' = Op("load_agents_from_db", NoAgent)
    /\ UNCHANGED <<configs, route_log>>

ReloadAgent(agent_id) ==
    /\ next_inst <= MaxInst
    /\ SetRegistry(reload_agent(configs, agents, collaboration, next_inst, agent_id))
    /\ last_op' = Op("reload_agent", agent_id)
    /\ UNCHANGED <<configs, route_log>>

\* register_agent called with a runtime built by the caller
RegisterAgent(agent_id) ==
    /\ next_inst <= MaxInst
    /\ agents' = register_agent(agents, DynamicAgent(agent_id,
                     [NoRow EXCEPT !.has_tools = RowHasTools[agent_id]], next_inst))
    /\ next_inst' = next_inst + 1
    /\ last_op' = Op("other", NoAgent)
    /\ UNCHANGED <<configs, collaboration, route_log>>

UnregisterAgent(agent_id) ==
    /\ agents' = unregister_agent(agents, agent_id)
    /\ last_op' = Op("other", NoAgent)
    /\ UNCHANGED <<configs, collaboration, next_inst, route_log>>

----------------------------------------------------------------------------
(* Owner endpoints of api/endpoints/agent_config.py: each changes the store *)
(* and then tells the registry                                              *)

CreateAgentConfig(agent_id, is_active, constructs, system_prompt) ==
    /\ ~configs[agent_id].present
    /\ next_inst <= MaxInst
    /\ configs' = [configs EXCEPT ![agent_id] =
                      [present |-> TRUE, is_active |-> is_active, constructs |-> constructs,
                       system_prompt |-> system_prompt,
                       has_tools |-> RowHasTools[agent_id]]]
    /\ SetRegistry(reload_agent(configs', agents, collaboration, next_inst, agent_id))
    /\ last_op' = Op("reload_agent", agent_id)
    /\ UNCHANGED route_log

UpdateAgentConfig(agent_id, is_active, constructs, system_prompt) ==
    /\ configs[agent_id].present
    /\ next_inst <= MaxInst
    /\ configs' = [configs EXCEPT ![agent_id].is_active = is_active,
                                  ![agent_id].constructs = constructs,
                                  ![agent_id].system_prompt = system_prompt]
    /\ SetRegistry(reload_agent(configs', agents, collaboration, next_inst, agent_id))
    /\ last_op' = Op("reload_agent", agent_id)
    /\ UNCHANGED route_log

DeleteAgentConfig(agent_id) ==
    /\ configs[agent_id].present
    /\ configs' = [configs EXCEPT ![agent_id] = NoRow]
    /\ agents' = unregister_agent(agents, agent_id)
    /\ last_op' = Op("other", NoAgent)
    /\ UNCHANGED <<collaboration, next_inst, route_log>>

ToggleAgentStatus(agent_id) ==
    /\ configs[agent_id].present
    /\ configs' = [configs EXCEPT ![agent_id].is_active = ~@]
    /\ last_op' = Op("other", NoAgent)
    /\ UNCHANGED <<agents, collaboration, next_inst, route_log>>


----------------------------------------------------------------------------
(* AgentCollaboration and AgentRegistry.route_task.  No call on this path   *)
(* suspends, so one route_task call is one step.                            *)

\* app/agents/agent_names.py: every specialty maps to an empty list
AGENT_SPECIALIZATIONS ==
    [email |-> <<>>, content |-> <<>>, social_media |-> <<>>, research |-> <<>>,
     customer_support |-> <<>>, marketing |-> <<>>, business |-> <<>>,
     technical |-> <<>>, management |-> <<>>, general |-> <<>>]

\* get_specializations_from_db, which no code calls: the capability tags that
\* would put an agent under a specialty
SpecialtyTags ==
    [email |-> {"email", "email_writing"}, content |-> {"content", "article_writing"},
     social_media |-> {"social_media", "social_posts"},
     research |-> {"research", "data_analysis"},
     customer_support |-> {"customer_support", "support"},
     marketing |-> {"marketing", "marketing_strategy"},
     business |-> {"business", "business_analysis"},
     technical |-> {"technical", "technical_docs"},
     management |-> {"project", "project_planning"}]

\* f"collab-{agent.agent_id}"
CollabTaskId ==
    [jasmine |-> "collab-jasmine", terrell |-> "collab-terrell"]

\* a runtime is mutated in place: the dict entry holding it shows the change
Mutate(d, agent) == [i \in 1..Len(d) |-> IF d[i].inst = agent.inst THEN agent ELSE d[i]]

InSeq(x, seq) == \E i \in 1..Len(seq) : seq[i] = x

\* the first loop of _execute_collaboration: the ids of agents_to_use
RECURSIVE AgentsToUse(_, _, _, _)
AgentsToUse(d, required_agents, i, acc) ==
    IF i > Len(required_agents) THEN acc
    ELSE LET agent_ids == AGENT_SPECIALIZATIONS[required_agents[i]]
             found == Len(agent_ids) > 0 /\ Registered(d, agent_ids[1])
                      /\ ~InSeq(agent_ids[1], acc)
         IN  AgentsToUse(d, required_agents, i + 1,
                         IF found THEN Append(acc, agent_ids[1]) ELSE acc)

\* the record of one execute call: the runtime before and what the call
\* returned
Executed(agent, x) ==
    [agent_id |-> agent.agent_id, inst |-> agent.inst, has_tools |-> agent.has_tools,
     status_before |-> agent.status, status_during |-> x.status_during,
     task_id |-> x.task_id, raised |-> x.raised,
     success |-> x.success, error |-> x.error, type |-> x.type, marker |-> x.marker,
     content |-> x.content]

\* one pass of the second loop: a success adds a contribution; an exception
\* raised by execute is caught and the loop goes on
CollabStep(agent, x, results) ==
    IF ~x.raised /\ x.success
    THEN Append(results, [agent_id |-> agent.agent_id, contribution |-> x.content])
    ELSE results

\* the second loop of _execute_collaboration: every selected runtime executes
\* in turn
RECURSIVE CollabLoop(_, _, _, _, _, _)
CollabLoop(d, ids, i, replies, results, executed) ==
    IF i > Len(ids) THEN [agents |-> d, results |-> results, executed |-> executed]
    ELSE LET agent == get_agent(d, ids[i])
             x == execute(agent, CollabTaskId[ids[i]], replies[i])
         IN  CollabLoop(Mutate(d, x.agent), ids, i + 1, replies,
                        CollabStep(agent, x, results),
                        Append(executed, Executed(agent, x)))

\* variant: the loop of the template stops after the first contribution
ManualTemplateFirstOnly(contributions, i) ==
    IF i > 1 \/ i > Len(contributions) THEN <<>>
    ELSE <<"###", contributions[i].agent_id>> \o contributions[i].contribution \o <<"---">>

\* the manual template of _synthesize_results
RECURSIVE ManualTemplate(_, _)
ManualTemplate(contributions, i) ==
    IF i > Len(contributions) THEN <<>>
    ELSE <<"###", contributions[i].agent_id>> \o contributions[i].contribution
         \o <<"---">> \o ManualTemplate(contributions, i + 1)

\* variant: a single contribution is also handed to the provider
synthesize_results_always(contributions, synthesis_reply) ==
    IF synthesis_reply = "error"
    THEN [kind |-> "manual", llm_calls |-> 1,
          text |-> <<"**Team Collaboration Result**">> \o ManualTemplate(contributions, 1)]
    ELSE [kind |-> "llm", llm_calls |-> 1, text |-> <<"synthesis">>]

\* _synthesize_results: one contribution is returned as it is; several are
\* merged by the provider, or by the manual template when that call fails
synthesize_results(contributions, synthesis_reply) ==
    IF Len(contributions) = 1
    THEN [kind |-> "contribution", llm_calls |-> 0, text |-> contributions[1].contribution]
    ELSE IF synthesis_reply = "error"
    THEN [kind |-> "manual", llm_calls |-> 1,
          text |-> <<"**Team Collaboration Result**">> \o ManualTemplate(contributions, 1)]
    ELSE [kind |-> "llm", llm_calls |-> 1, text |-> <<"synthesis">>]

NoFinal == [kind |-> "none", llm_calls |-> 0, text |-> NoText]

\* variant: the synthesis is called whatever the contributions
NoResultsNever(collaboration_results) == FALSE

\* if not collaboration_results
NoResults(collaboration_results) == Len(collaboration_results) = 0

\* the end of _execute_collaboration, after the loop
CollabReturn(run, synthesis_reply) ==
    IF NoResults(run.results)
    THEN [agents |-> run.agents, executed |-> run.executed, success |-> FALSE,
          error |-> "All agents failed to complete their tasks",
          collaboration |-> FALSE, contributions |-> run.results, final |-> NoFinal,
          calls |-> <<"analyze", "execute_collaboration">>]
    ELSE [agents |-> run.agents, executed |-> run.executed, success |-> TRUE,
          error |-> "", collaboration |-> TRUE, contributions |-> run.results,
          final |-> synthesize_results(run.results, synthesis_reply),
          calls |-> <<"analyze", "execute_collaboration", "synthesize">>]

\* the agents the loop runs over: the specialists found, or the primary
AgentsOrPrimary(selected, primary_agent_id) ==
    IF Len(selected) = 0 THEN <<primary_agent_id>> ELSE selected

\* _execute_collaboration
execute_collaboration(d, primary_agent_id, required_agents, replies, synthesis_reply) ==
    CollabReturn(CollabLoop(d, AgentsOrPrimary(AgentsToUse(d, required_agents, 1, <<>>),
                                               primary_agent_id),
                            1, replies, <<>>, <<>>),
                 synthesis_reply)

\* what route_task returns for one execute call
SingleReturn(d, agent, x, calls) ==
    [agents |-> Mutate(d, x.agent),
     executed |-> <<Executed(agent, x)>>,
     success |-> x.success, error |-> x.error,
     collaboration |-> FALSE, contributions |-> <<>>, final |-> NoFinal, calls |-> calls]

\* the result of one execute call, as route_task returns it
SingleResult(d, agent, task_id, replies, calls) ==
    SingleReturn(d, agent, execute(agent, task_id, replies[1]), calls)

\* the two classifiers on the texts of the model, computed once
AnalysisOf == [task \in ClassifierTexts |-> AnalyzeCollaborationNeed(task)]

SpecialistOf == [task \in ClassifierTexts |-> RouteToSpecialist(task)]

\* variant: a specialist that is not registered fails the request
coordinate_agents_no_lookup(d, task, primary_agent_id, replies, synthesis_reply) ==
    LET needs_collaboration == AnalysisOf[task]
        specialist == SpecialistOf[task]
    IN  IF ~Registered(d, primary_agent_id) \/
           (~needs_collaboration.needs_help /\ specialist # NoAgent
            /\ ~Registered(d, specialist))
        THEN [agents |-> d, executed |-> <<>>, success |-> FALSE, error |-> "Agent not found",
              collaboration |-> FALSE, contributions |-> <<>>, final |-> NoFinal,
              calls |-> <<>>]
        ELSE IF ~needs_collaboration.needs_help
        THEN IF specialist # NoAgent /\ specialist # primary_agent_id
             THEN SingleResult(d, get_agent(d, specialist), "specialist-task", replies,
                               <<"analyze", "route_to_specialist">>)
             ELSE SingleResult(d, get_agent(d, primary_agent_id), "single-task", replies,
                               <<"analyze", "route_to_specialist">>)
        ELSE execute_collaboration(d, primary_agent_id,
                                   needs_collaboration.required_agents, replies,
                                   synthesis_reply)

\* AgentCollaboration.coordinate_agents
coordinate_agents(d, task, primary_agent_id, replies, synthesis_reply) ==
    LET needs_collaboration == AnalysisOf[task]
        specialist == SpecialistOf[task]
    IN  IF ~Registered(d, primary_agent_id)
        THEN [agents |-> d, executed |-> <<>>, success |-> FALSE, error |-> "Agent not found",
              collaboration |-> FALSE, contributions |-> <<>>, final |-> NoFinal,
              calls |-> <<>>]
        ELSE IF ~needs_collaboration.needs_help
        THEN IF specialist # NoAgent /\ specialist # primary_agent_id
                /\ Registered(d, specialist)
             THEN SingleResult(d, get_agent(d, specialist), "specialist-task", replies,
                               <<"analyze", "route_to_specialist">>)
             ELSE SingleResult(d, get_agent(d, primary_agent_id), "single-task", replies,
                               <<"analyze", "route_to_specialist">>)
        ELSE execute_collaboration(d, primary_agent_id,
                                   needs_collaboration.required_agents, replies,
                                   synthesis_reply)

\* variant: a single runtime is also handed to the collaboration system
RouteBranchNoDirect(n, collab) ==
    IF n = 0 THEN "none"
    ELSE IF collab THEN "collaboration"
    ELSE "fallback"

\* the branch route_task takes for a registry of n runtimes
RouteBranch(n, collab) ==
    IF n = 0 THEN "none"
    ELSE IF n = 1 THEN "direct"
    ELSE IF collab THEN "collaboration"
    ELSE "fallback"

\* AgentRegistry.route_task
route_task(d, collab, user_query, replies, synthesis_reply) ==
    LET branch == RouteBranch(Len(d), collab)
    IN  IF branch = "none"
        THEN [agents |-> d, executed |-> <<>>, success |-> FALSE,
              error |-> "No agents available", collaboration |-> FALSE,
              contributions |-> <<>>, final |-> NoFinal, calls |-> <<>>]
        ELSE IF branch = "collaboration"
        THEN coordinate_agents(d, user_query, d[1].agent_id, replies, synthesis_reply)
        ELSE SingleResult(d, d[1], "direct-task", replies, <<>>)

\* what one route_task call leaves behind: the runtimes it mutated and the
\* record of the call
RouteReturn(user_query, r) ==
    /\ agents' = r.agents
    /\ route_log' = Append(route_log,
           [user_query |-> user_query,
            ids |-> [i \in 1..Len(agents) |-> agents[i].agent_id],
            executed |-> r.executed, success |-> r.success,
            error |-> r.error, collaboration |-> r.collaboration,
            contributions |-> r.contributions, final |-> r.final, calls |-> r.calls])

RouteTask(user_query, replies, synthesis_reply) ==
    /\ Len(route_log) < MaxRoutes
    /\ RouteReturn(user_query,
                   route_task(agents, collaboration, user_query, replies, synthesis_reply))
    /\ last_op' = Op("other", NoAgent)
    /\ UNCHANGED <<configs, collaboration, next_inst>>

----------------------------------------------------------------------------
(* The classifiers of AgentCollaboration called on their own                *)

NoClassified ==
    [fn |-> "none", task |-> <<>>, specialist |-> NoAgent, needs_help |-> FALSE,
     required_agents |-> <<>>]

\* self._route_to_specialist(task)
RouteToSpecialistCall(task) ==
    /\ calls_made < MaxClassified
    /\ classified' = [fn |-> "route_to_specialist", task |-> task,
                      specialist |-> SpecialistOf[task], needs_help |-> FALSE,
                      required_agents |-> <<>>]
    /\ calls_made' = calls_made + 1

\* await self._analyze_collaboration_need(task)
AnalyzeCollaborationNeedCall(task) ==
    /\ calls_made < MaxClassified
    /\ classified' = [fn |-> "analyze_collaboration_need", task |-> task,
                      specialist |-> NoAgent,
                      needs_help |-> AnalysisOf[task].needs_help,
                      required_agents |-> AnalysisOf[task].required_agents]
    /\ calls_made' = calls_made + 1

----------------------------------------------------------------------------
(* The in-band tool marker: written by DynamicAgent._handle_tool_usage,     *)
(* read by _handle_tool_request of api/endpoints/agent_chat.py.  Texts are  *)
(* sequences of characters; indexes are those of Python (from 0).           *)

\* the tool names the decision of step 1 can carry
ToolNames == {<<"g", "m", "a", "i", "l">>, <<"c", "a", "l", "e", "n", "d", "a", "r">>, <<"s", "l", "a", "c", "k">>}

ParamKeys == {<<"t", "o">>, <<"s", "u", "b", "j", "e", "c", "t">>, <<"c", "c">>}

ParamStrings == {<<"b", "o", "b", "@", "x", ".", "c", "o", "m">>, <<"H", "i">>}

\* the parameter objects of the model: dicts of at most two keys, as the
\* sequence of their items
ParamObjects ==
    {<<>>}
    \cup {<<[key |-> k, value |-> v]>> : k \in ParamKeys, v \in ParamStrings}
    \cup {<<[key |-> ks[1], value |-> v1], [key |-> ks[2], value |-> v2]>> :
              ks \in {p \in ParamKeys \X ParamKeys : p[1] # p[2]},
              v1 \in ParamStrings, v2 \in ParamStrings}

Quote == <<"\"">>

\* json.dumps of the items from the i-th on: "key": "value", separated by ", "
RECURSIVE JsonItems(_, _)
JsonItems(obj, i) ==
    IF i > Len(obj) THEN <<>>
    ELSE (IF i > 1 THEN <<",", " ">> ELSE <<>>)
         \o Quote \o obj[i].key \o Quote \o <<":", " ">>
         \o Quote \o obj[i].value \o Quote
         \o JsonItems(obj, i + 1)

\* json.dumps(tool_params)
JsonDumps(obj) == <<"{">> \o JsonItems(obj, 1) \o <<"}">>

\* json.loads(text) on the texts of the model: the object whose document the
\* text is, or json.JSONDecodeError
JsonLoads(text) ==
    IF \E obj \in ParamObjects : JsonDumps(obj) = text
    THEN [raised |-> FALSE, value |-> CHOOSE obj \in ParamObjects : JsonDumps(obj) = text]
    ELSE [raised |-> TRUE, value |-> <<>>]

MarkerPrefix == <<"[", "T", "O", "O", "L", ":">>

ReplyIntro == <<"I", "'", "l", "l", " ", "h", "e", "l", "p", " ", "y", "o", "u", " ", "w", "i", "t", "h", " ", "t", "h", "a", "t", " ", "u", "s", "i", "n", "g", " ">>

\* the content of the tool_request result:
\* f"I'll help you with that using {name}!\n\n[TOOL:{name}:{json.dumps(tool_params)}]"
MarkerContent(tool_name, tool_params) ==
    ReplyIntro \o tool_name \o <<"!", "\n", "\n">>
    \o MarkerPrefix \o tool_name \o <<":">> \o JsonDumps(tool_params) \o <<"]">>

\* text.find(pattern, from): the first index at or after from, or -1
Find(text, pattern, from) ==
    LET Hits == {i \in from..(Len(text) - Len(pattern)) :
                    \A j \in 1..Len(pattern) : text[i + j] = pattern[j]}
    IN  IF Hits = {} THEN -1
        ELSE CHOOSE i \in Hits : \A k \in Hits : i <= k

\* text[from:to]
Slice(text, from, to) == SubSeq(text, from + 1, to)

\* text.split(":", maxsplit) with maxsplit splits left
RECURSIVE SplitColon(_, _)
SplitColon(text, maxsplit) ==
    IF maxsplit = 0 \/ Find(text, <<":">>, 0) = -1 THEN <<text>>
    ELSE <<Slice(text, 0, Find(text, <<":">>, 0))>>
         \o SplitColon(Slice(text, Find(text, <<":">>, 0) + 1, Len(text)), maxsplit - 1)

NoParsed == [outcome |-> "none", tool_name |-> <<>>, params |-> <<>>]

\* what _handle_tool_request does with parts = tool_request.split(":", 2)
ParseParts(parts) ==
    IF Len(parts) < 2 THEN [outcome |-> "no_request", tool_name |-> <<>>, params |-> <<>>]
    ELSE IF JsonLoads(parts[2]).raised
    THEN [outcome |-> "json.JSONDecodeError", tool_name |-> parts[1], params |-> <<>>]
    ELSE [outcome |-> "parsed", tool_name |-> parts[1], params |-> JsonLoads(parts[2]).value]

\* tool_request = content[start+6:end], then the split
ParseRequest(content, start, end) ==
    IF start = -1 \/ end = -1
    THEN [outcome |-> "no_request", tool_name |-> <<>>, params |-> <<>>]
    ELSE ParseParts(SplitColon(Slice(content, start + 6, end), 2))

\* _handle_tool_request(content) up to the tool name and the parameters
HandleToolRequestParse(content) ==
    ParseRequest(content, Find(content, MarkerPrefix, 0),
                 Find(content, <<"]">>, Find(content, MarkerPrefix, 0)))

NoReply == [tool_name |-> <<>>, tool_params |-> <<>>, content |-> <<>>]

\* the runtime answers with a tool request for tool_name and tool_params
ToolRequestReply(tool_name, tool_params) ==
    /\ tool_reply' = [tool_name |-> tool_name, tool_params |-> tool_params,
                      content |-> MarkerContent(tool_name, tool_params)]
    /\ parsed' = NoParsed

\* send_message_to_agent finds "[TOOL:" in the reply and calls _handle_tool_request
HandleToolRequest ==
    /\ tool_reply # NoReply
    /\ parsed = NoParsed
    /\ Find(tool_reply.content, MarkerPrefix, 0) # -1
    /\ parsed' = HandleToolRequestParse(tool_reply.content)
    /\ UNCHANGED tool_reply

----------------------------------------------------------------------------
(* api/endpoints/agent_chat.py, send_message_to_agent: the runtime of the   *)
(* chat executes the message                                                *)

\* f"chat-{chat_id}"
ChatTaskId == "chat-1"

\* send_message_to_agent from the lookup of the runtime to the result of execute:
\* 404 when the registry has no runtime for the chat's agent
SendMessageReturn(agent_id, replies, agent, x) ==
    /\ agents' = Mutate(agents, x.agent)
    /\ chat_log' = Append(chat_log,
           [agent_id |-> agent_id, status_code |-> "200", replies |-> replies,
            executed |-> <<Executed(agent, x)>>])

SendMessage(agent_id, replies) ==
    /\ Len(chat_log) < MaxMessages
    /\ IF ~Registered(agents, agent_id)
       THEN /\ chat_log' = Append(chat_log,
                   [agent_id |-> agent_id, status_code |-> "404", replies |-> replies,
                    executed |-> <<>>])
            /\ UNCHANGED agents
       ELSE SendMessageReturn(agent_id, replies, get_agent(agents, agent_id),
                              execute(get_agent(agents, agent_id), ChatTaskId, replies))
    /\ last_op' = Op("other", NoAgent)
    /\ UNCHANGED <<configs, collaboration, next_inst, route_log>>

----------------------------------------------------------------------------
(* _execute_collaboration from the test of collaboration_results on, for    *)
(* the contributions its loop has collected                                 *)

NoSynthesis ==
    [called |-> FALSE, contributions |-> <<>>, synthesis_reply |-> "none",
     success |-> FALSE, final |-> NoFinal]

\* the texts a contribution can hold: what execute returned as content
ContributionTexts == {DraftText, MarkerText, ConfigureText}

\* the contributions of registered runtimes, one for each of ids, in that order
ContributionsBy(ids) ==
    {c \in [1..Len(ids) -> [agent_id : AgentIds, contribution : ContributionTexts]] :
        \A i \in 1..Len(ids) : c[i].agent_id = ids[i]}

\* the record of the call: the dict returned to coordinate_agents
SynthesisReturn(contributions, synthesis_reply, r) ==
    synthesis' = [called |-> TRUE, contributions |-> contributions,
                  synthesis_reply |-> synthesis_reply, success |-> r.success,
                  final |-> r.final]

\* final_result = await self._synthesize_results(task, collaboration_results)
\* and the return that follows it
SynthesizeResults(contributions, synthesis_reply) ==
    /\ Len(contributions) > 0
    /\ \A i \in 1..Len(contributions) : Registered(agents, contributions[i].agent_id)
    /\ SynthesisReturn(contributions, synthesis_reply,
                       CollabReturn([agents |-> agents, results |-> contributions,
                                     executed |-> <<>>], synthesis_reply))

----------------------------------------------------------------------------
(* Calls of BaseAgent.execute and BaseAgent.add_to_memory on one runtime,   *)
(* with the history of the interactions added                               *)

\* the task id of the n-th interaction
TaskIdOf(n) == "task-" \o ToString(n)

\* the interactions the runtime inst was given, oldest first
AddedTo(inst) ==
    LET Mine(a) == a.inst = inst
    IN  SelectSeq(added, Mine)

\* the add_to_memory calls of one execute call: task_start, and task_complete
\* when process_task returned
ExecuteAdds(inst, task_id, x) ==
    <<[inst |-> inst, interaction |-> [type |-> "task_start", task_id |-> task_id]]>>
    \o (IF x.success
        THEN <<[inst |-> inst,
                interaction |-> [type |-> "task_complete", task_id |-> task_id]]>>
        ELSE <<>>)

ExecuteTaskReturn(agent, task_id, x) ==
    /\ agents' = Mutate(agents, x.agent)
    /\ added' = added \o ExecuteAdds(agent.inst, task_id, x)

\* await agent.execute({"task_id": ...})
ExecuteTask(agent_id, replies) ==
    /\ Registered(agents, agent_id)
    /\ Len(added) < MaxAdded
    /\ replies.s = "error" => get_agent(agents, agent_id).tasks_failed < MaxFailed
    /\ ExecuteTaskReturn(get_agent(agents, agent_id), TaskIdOf(Len(added) + 1),
                         execute(get_agent(agents, agent_id), TaskIdOf(Len(added) + 1),
                                 replies))
    /\ last_op' = Op("other", NoAgent)
    /\ UNCHANGED <<configs, collaboration, next_inst, route_log>>

AddToMemoryReturn(agent, interaction) ==
    /\ agents' = Mutate(agents, [agent EXCEPT !.memory = add_to_memory(@, interaction)])
    /\ added' = Append(added, [inst |-> agent.inst, interaction |-> interaction])

\* agent.add_to_memory(interaction), called from outside execute
AddToMemory(agent_id) ==
    /\ Registered(agents, agent_id)
    /\ Len(added) < MaxAdded
    /\ Cardinality({k \in 1..Len(added) : added[k].interaction.type = "note"}) < MaxNotes
    /\ AddToMemoryReturn(get_agent(agents, agent_id),
                         [type |-> "note", task_id |-> TaskIdOf(Len(added) + 1)])
    /\ last_op' = Op("other", NoAgent)
    /\ UNCHANGED <<configs, collaboration, next_inst, route_log>>

----------------------------------------------------------------------------
RegInit ==
    /\ configs = [a \in AgentIds |-> NoRow]
    /\ agents = <<>>
    /\ collaboration = FALSE
    /\ next_inst = 1
    /\ last_op = Op("other", NoAgent)
    /\ route_log = <<>>

AuxInit ==
    /\ chat_log = <<>>
    /\ classified = NoClassified
    /\ calls_made = 0
    /\ tool_reply = NoReply
    /\ parsed = NoParsed
    /\ synthesis = NoSynthesis
    /\ added = <<>>

Init == ToolInit /\ RegInit /\ AuxInit

SpecTool == Init /\ [][ToolNext]_vars

DoLoadAgentsFromDb == LoadAgentsFromDb /\ UNCHANGED <<toolVars, auxVars>>

DoReloadAgent ==
    /\ \E agent_id \in AgentIds : ReloadAgent(agent_id)
    /\ UNCHANGED <<toolVars, auxVars>>

DoRegisterAgent ==
    /\ \E agent_id \in AgentIds : RegisterAgent(agent_id)
    /\ UNCHANGED <<toolVars, auxVars>>

DoUnregisterAgent ==
    /\ \E agent_id \in AgentIds : UnregisterAgent(agent_id)
    /\ UNCHANGED <<toolVars, auxVars>>

DoCreateAgentConfig ==
    /\ \E agent_id \in AgentIds, is_active \in BOOLEAN, constructs \in BOOLEAN,
          system_prompt \in Prompts :
          CreateAgentConfig(agent_id, is_active, constructs, system_prompt)
    /\ UNCHANGED <<toolVars, auxVars>>

DoUpdateAgentConfig ==
    /\ \E agent_id \in AgentIds, is_active \in BOOLEAN, constructs \in BOOLEAN,
          system_prompt \in Prompts :
          UpdateAgentConfig(agent_id, is_active, constructs, system_prompt)
    /\ UNCHANGED <<toolVars, auxVars>>

DoDeleteAgentConfig ==
    /\ \E agent_id \in AgentIds : DeleteAgentConfig(agent_id)
    /\ UNCHANGED <<toolVars, auxVars>>

DoToggleAgentStatus ==
    /\ \E agent_id \in AgentIds : ToggleAgentStatus(agent_id)
    /\ UNCHANGED <<toolVars, auxVars>>

\* the number of execute calls one route_task call makes on registry d
ExecutesNeeded(d, user_query) ==
    LET selected == AgentsToUse(d, AnalysisOf[user_query].required_agents, 1, <<>>)
    IN  IF Len(selected) = 0 THEN 1 ELSE Len(selected)

\* the provider's answers to one execute call: to the tool decision (d) and
\* to the call that follows it (s)
ReplyPairs == [d : LlmReplies, s : {"error", "garbage", "json_true"}]

DoRouteTask ==
    /\ \E user_query \in RequestTexts :
          \E replies \in [1..ExecutesNeeded(agents, user_query) -> ReplyPairs],
             synthesis_reply \in {"error", "garbage"} :
             RouteTask(user_query, replies, synthesis_reply)
    /\ UNCHANGED <<toolVars, auxVars>>

\* route_task on a request no classifier rule matches
DoRouteGreeting ==
    /\ \E replies \in [{1} -> [d : {"json_false"}, s : {"error", "garbage"}]] :
          RouteTask(TextHello, replies, "error")
    /\ UNCHANGED <<toolVars, auxVars>>

\* the registry, the configuration store and the owner endpoints
RegistryNext ==
    \/ DoLoadAgentsFromDb
    \/ DoReloadAgent
    \/ DoRegisterAgent
    \/ DoUnregisterAgent
    \/ DoCreateAgentConfig
    \/ DoUpdateAgentConfig
    \/ DoDeleteAgentConfig
    \/ DoToggleAgentStatus
    \/ DoRouteGreeting

SpecRegistry == Init /\ [][RegistryNext]_vars

\* the owner creates an active agent
DoCreateActiveAgent ==
    /\ \E agent_id \in AgentIds : CreateAgentConfig(agent_id, TRUE, TRUE, "prompt-1")
    /\ UNCHANGED <<toolVars, auxVars>>

\* request routing over the registries the operations can build
RouteNext ==
    \/ DoCreateActiveAgent
    \/ DoRegisterAgent
    \/ DoUnregisterAgent
    \/ DoRouteTask

SpecRoute == Init /\ [][RouteNext]_vars

\* "complaint": a request whose specialist is amara
TextComplaint == Keywords[6]

\* route_task on a request whose specialist the owner has not created
DoRouteComplaint ==
    /\ \E replies \in [{1} -> ReplyPairs] : RouteTask(TextComplaint, replies, "error")
    /\ UNCHANGED <<toolVars, auxVars>>

\* request routing over the registries the owner endpoints build
DispatchNext ==
    \/ DoCreateActiveAgent
    \/ DoDeleteAgentConfig
    \/ DoRouteTask
    \/ DoRouteComplaint

SpecDispatch == Init /\ [][DispatchNext]_vars

\* a user sends a message in the chat of an agent
DoSendMessage ==
    /\ \E agent_id \in AgentIds, replies \in ReplyPairs : SendMessage(agent_id, replies)
    /\ UNCHANGED <<toolVars, classVars, markerVars, synthVars, memVars>>

\* the chats of the runtimes the owner created
RuntimeNext ==
    \/ DoCreateActiveAgent
    \/ DoSendMessage

SpecRuntime == Init /\ [][RuntimeNext]_vars

\* the owner endpoints on descriptors that construct, and requests routed
\* to the runtimes they leave in the registry
OwnerNext ==
    \/ DoCreateActiveAgent
    \/ DoToggleAgentStatus
    \/ DoDeleteAgentConfig
    \/ DoRouteGreeting

SpecOwner == Init /\ [][OwnerNext]_vars

DoRouteToSpecialist ==
    /\ \E task \in ClassifierTexts : RouteToSpecialistCall(task)
    /\ UNCHANGED <<toolVars, regVars, chatVars, markerVars, synthVars, memVars>>

DoAnalyzeCollaborationNeed ==
    /\ \E task \in ClassifierTexts : AnalyzeCollaborationNeedCall(task)
    /\ UNCHANGED <<toolVars, regVars, chatVars, markerVars, synthVars, memVars>>

\* the classifiers called in any order, while runtimes are registered
ClassifyNext ==
    \/ DoRouteToSpecialist
    \/ DoAnalyzeCollaborationNeed
    \/ DoRegisterAgent

SpecClassify == Init /\ [][ClassifyNext]_vars

DoToolRequestReply ==
    /\ \E tool_name \in ToolNames, tool_params \in ParamObjects :
          ToolRequestReply(tool_name, tool_params)
    /\ UNCHANGED <<toolVars, regVars, chatVars, classVars, synthVars, memVars>>

DoHandleToolRequest ==
    /\ HandleToolRequest
    /\ UNCHANGED <<toolVars, regVars, chatVars, classVars, synthVars, memVars>>

\* tool markers written by a runtime and read by the chat endpoint
MarkerNext ==
    \/ DoToolRequestReply
    \/ DoHandleToolRequest

SpecMarker == Init /\ [][MarkerNext]_vars

\* the orders in which registered runtimes can have contributed
ContributorOrders ==
    {<<"jasmine">>, <<"terrell">>, <<"jasmine", "terrell">>, <<"terrell", "jasmine">>}

DoSynthesizeResults ==
    /\ \E ids \in ContributorOrders :
          \E contributions \in ContributionsBy(ids), synthesis_reply \in {"error", "garbage"} :
             SynthesizeResults(contributions, synthesis_reply)
    /\ UNCHANGED <<toolVars, regVars, chatVars, classVars, markerVars, memVars>>

\* the synthesis of the contributions of the runtimes the owner created
SynthesisNext ==
    \/ DoCreateActiveAgent
    \/ DoSynthesizeResults

SpecSynthesis == Init /\ [][SynthesisNext]_vars

\* the runtime whose memory is followed
MemoryAgents == {"jasmine"}

DoExecuteTask ==
    /\ \E agent_id \in MemoryAgents, replies \in ReplyPairs : ExecuteTask(agent_id, replies)
    /\ UNCHANGED <<toolVars, chatVars, classVars, markerVars, synthVars>>

DoAddToMemory ==
    /\ \E agent_id \in MemoryAgents : AddToMemory(agent_id)
    /\ UNCHANGED <<toolVars, chatVars, classVars, markerVars, synthVars>>

\* tasks and notes given to a runtime the owner created
MemoryNext ==
    \/ DoCreateActiveAgent
    \/ DoExecuteTask
    \/ DoAddToMemory

SpecMemory == Init /\ [][MemoryNext]_vars

----------------------------------------------------------------------------
(* Properties of the tool execution engine                                  *)

RequestsOf(e) == {r \in 1..Len(requests) : requests[r].exec = e}

\* C1: the status of an execution changes at most once: once it is success,
\* failed or timeout, no later step (a late webhook answer, a wait whose
\* timeout elapses) changes it.
C1_StatusChangesAtMostOnce ==
    [][\A e \in 1..Len(executions) :
          executions[e].status # "pending" => executions'[e].status = executions[e].status]_vars

\* the parameters miss a parameter the schema declares required without default
MissingRequiredNoDefault(parameters, schema) ==
    \E i \in 1..Len(schema) :
        /\ schema[i].required # "false"
        /\ ~schema[i].has_default
        /\ parameters[schema[i].name] = NoneV

ValidationErrors == {"Required parameter missing", "Invalid email", "Invalid number"}

\* C2: a call of execute_tool whose parameters miss a required parameter
\* without default raises a validation error, creates no ToolExecution row
\* and sends no webhook request.
C2_MissingRequiredRejected ==
    \A c \in 1..Len(call_log) :
        (/\ ToolTable[call_log[c].tool_id].webhook_url
         /\ MissingRequiredNoDefault(call_log[c].parameters,
                                     ToolTable[call_log[c].tool_id].schema))
        => /\ call_log[c].raised
           /\ call_log[c].error[1] \in ValidationErrors
           /\ call_log[c].execution = 0
           /\ \A e \in 1..Len(executions) : executions[e].call # c
           /\ \A r \in 1..Len(requests) : executions[requests[r].exec].call # c

\* the call of scenario 3 ({subject: "Hi"} against the gmail schema) was made
C2_Witness ==
    \E c \in 1..Len(call_log) :
        /\ call_log[c].tool_id = "gmail"
        /\ call_log[c].parameters = [NoParams EXCEPT !["subject"] = StrHi]
        /\ call_log[c].raised

\* C3: wait_for_execution returns a row whose status is not pending, after
\* at most `timeout` polls; a row it forced is in status timeout; and it
\* never sleeps once its timeout has elapsed.
C3_WaitReturnsInBound ==
    \A w \in 1..Len(waits) :
        /\ waits[w].elapsed <= waits[w].timeout
        /\ waits[w].pc = "sleeping" => waits[w].elapsed < waits[w].timeout
        /\ waits[w].pc = "returned" => waits[w].returned_status # "pending"
        /\ waits[w].forced => /\ waits[w].returned_status = "timeout"
                              /\ waits[w].elapsed = waits[w].timeout

\* a wait polled, slept through its whole timeout and forced the row to
\* timeout while the webhook request was still unanswered
C3_Witness ==
    \E w \in 1..Len(waits) :
        /\ waits[w].pc = "returned" /\ waits[w].forced
        /\ waits[w].timeout = 2 /\ waits[w].elapsed = 2
        /\ webhook_tasks[waits[w].exec].pc = "posting"
        /\ executions[waits[w].exec].status = "timeout"

\* C4: after successful validation execute_tool returns a pending row, and
\* no step of the webhook task has run when it returns.
C4_ReturnsPendingBeforeTaskRuns ==
    \A c \in 1..Len(call_log) :
        ~call_log[c].raised =>
            /\ call_log[c].returned_status = "pending"
            /\ call_log[c].task_at_return = "scheduled"

\* a call returned its row, and the background task has resolved it since
C4_Witness ==
    \E c \in 1..Len(call_log) :
        /\ ~call_log[c].raised
        /\ webhook_tasks[call_log[c].execution].pc = "done"
        /\ executions[call_log[c].execution].status = "success"

\* C5: the status written by _send_webhook: 200 gives success with the
\* payload stored, another status gives failed with the code in the error
\* text, a transport error gives failed, a network timeout gives timeout.
C5_OutcomeDeterminesStatus ==
    [][\A e \in 1..Len(webhook_tasks) :
          (webhook_tasks[e].pc = "posting" /\ webhook_tasks'[e].pc = "done") =>
            LET o == webhook_tasks'[e].outcome
                row == executions'[e]
            IN  /\ (o.kind = "response" /\ o.status_code = 200 /\ o.json_ok)
                      => (row.status = "success" /\ row.response_data # NoneV)
                /\ (o.kind = "response" /\ o.status_code # 200)
                      => /\ row.status = "failed"
                         /\ \E i \in 1..Len(row.error_message) :
                                row.error_message[i] = CodeText(o.status_code)
                /\ (o.kind = "raise" /\ o.exc = "httpx.ConnectError")
                      => row.status = "failed"
                /\ (o.kind = "raise" /\ o.exc = "httpx.ReadTimeout")
                      => row.status = "timeout"]_vars

\* C6: at most one webhook request is sent per execution row, and one call
\* of execute_tool creates at most one row.
C6_AtMostOneRequest ==
    /\ \A e \in 1..Len(executions) : Cardinality(RequestsOf(e)) <= 1
    /\ \A r \in 1..Len(requests) : requests[r].exec \in 1..Len(executions)
    /\ \A e1, e2 \in 1..Len(executions) :
          executions[e1].call = executions[e2].call => e1 = e2

\* the request of an execution failed and two waits on it have returned, one
\* of them by its own timeout: still one request
C6_Witness ==
    \E e \in 1..Len(executions) :
        /\ webhook_tasks[e].pc = "done"
        /\ webhook_tasks[e].outcome.kind = "raise"
        /\ Cardinality(RequestsOf(e)) = 1
        /\ \E w1, w2 \in 1..Len(waits) :
              /\ w1 # w2
              /\ waits[w1].exec = e /\ waits[w1].pc = "returned" /\ waits[w1].forced
              /\ waits[w2].exec = e /\ waits[w2].pc = "returned"

----------------------------------------------------------------------------
(* Properties of the registry                                               *)

\* the store holds an active descriptor for the id
ActiveDescriptor(agent_id) == configs[agent_id].present /\ configs[agent_id].is_active

\* C7: an agent_id maps to at most one live runtime, and reload_agent(id)
\* leaves the runtime registered under every other id as it was (same
\* instance, same counters, same memory).
C7_OneRuntimePerIdAndReloadFrame ==
    /\ [](\A i, j \in 1..Len(agents) : agents[i].agent_id = agents[j].agent_id => i = j)
    /\ [][last_op'.op = "reload_agent" =>
            \A agent_id \in AgentIds \ {last_op'.agent_id} :
                get_agent(agents', agent_id) = get_agent(agents, agent_id)]_vars

\* reload_agent has just registered a runtime next to another runtime that
\* has executed a task
C7_Witness ==
    /\ last_op.op = "reload_agent"
    /\ Registered(agents, last_op.agent_id)
    /\ \E i \in 1..Len(agents) :
          /\ agents[i].agent_id # last_op.agent_id
          /\ agents[i].tasks_completed + agents[i].tasks_failed > 0
          /\ Len(agents[i].memory) > 0

\* C8: after reload_agent(id), get_agent(id) is a freshly constructed runtime
\* built from the descriptor if the store holds an active (constructible)
\* descriptor for id, and none if the store holds no active descriptor.
C8_ReloadFollowsActiveDescriptor ==
    last_op.op = "reload_agent" =>
        LET agent_id == last_op.agent_id
            row == configs[agent_id]
            agent == get_agent(agents, agent_id)
        IN  /\ (ActiveDescriptor(agent_id) /\ row.constructs) =>
                  /\ Registered(agents, agent_id)
                  /\ agent.inst = next_inst - 1
                  /\ agent.system_prompt = row.system_prompt
                  /\ agent.tasks_completed = 0 /\ agent.tasks_failed = 0
            /\ ~ActiveDescriptor(agent_id) => ~Registered(agents, agent_id)

----------------------------------------------------------------------------
(* Properties of route_task                                                 *)

\* C10: with no runtime route_task returns the "no agents" failure and
\* executes nothing; with one runtime it executes that runtime on the
\* request, for every text, without classifier or collaboration.
C10_RouteDispatchOnSize ==
    \A k \in 1..Len(route_log) :
        LET call == route_log[k]
        IN  /\ Len(call.ids) = 0 =>
                  /\ ~call.success
                  /\ call.error = "No agents available"
                  /\ call.executed = <<>>
                  /\ call.calls = <<>>
            /\ Len(call.ids) = 1 =>
                  /\ Len(call.executed) = 1
                  /\ call.executed[1].agent_id = call.ids[1]
                  /\ call.executed[1].task_id = "direct-task"
                  /\ call.calls = <<>>
                  /\ ~call.collaboration

\* the only runtime (terrell) served a request that the classifiers would
\* hand to a team
C10_Witness ==
    \E k \in 1..Len(route_log) :
        /\ route_log[k].ids = <<"terrell">>
        /\ route_log[k].user_query = TextCampaign
        /\ AnalysisOf[TextCampaign].needs_help
        /\ route_log[k].executed[1].agent_id = "terrell"
        /\ route_log[k].success
        /\ agents[1].tasks_completed = 1

----------------------------------------------------------------------------
(* Properties of the classifiers                                            *)

RouteWordSets ==
    <<[id |-> "jasmine", words |-> RouteWordsJasmine],
      [id |-> "terrell", words |-> RouteWordsTerrell],
      [id |-> "india", words |-> RouteWordsIndia],
      [id |-> "deandre", words |-> RouteWordsDeandre],
      [id |-> "amara", words |-> RouteWordsAmara],
      [id |-> "malik", words |-> RouteWordsMalik],
      [id |-> "zara", words |-> RouteWordsZara],
      [id |-> "isaiah", words |-> RouteWordsIsaiah],
      [id |-> "keisha", words |-> RouteWordsKeisha]>>

\* the specialist keyword sets with a keyword in the lower-cased text
RouteSetsHit(task) ==
    {k \in 1..Len(RouteWordSets) : AnyIn(RouteWordSets[k].words, Lower(task))}

\* the specialty rule of the label has a keyword in the lower-cased text
NeedSetHit(task, specialty) == AnyIn(NeedWords[specialty], Lower(task))

NeedSetsHit(task) == {k \in 1..Len(Specialties) : NeedSetHit(task, Specialties[k])}

HasMultiIndicator(task) == AnyIn(multi_indicators, Lower(task))

\* C11: for a text with a keyword of exactly one specialist keyword set,
\* _route_to_specialist returns the specialist of that set, and two calls in
\* a row on the same text return the same id, whatever was called before and
\* whatever the registry holds.
C11_RouteToSpecialistPure ==
    /\ [](classified.fn = "route_to_specialist" =>
            \A k \in RouteSetsHit(classified.task) :
                RouteSetsHit(classified.task) = {k} =>
                    classified.specialist = RouteWordSets[k].id)
    /\ [][(/\ classified.fn = "route_to_specialist"
           /\ classified'.fn = "route_to_specialist"
           /\ classified'.task = classified.task)
          => classified'.specialist = classified.specialist]_vars

\* the blog request was routed to the content specialist by a second call,
\* with runtimes registered
C11_Witness ==
    /\ classified.fn = "route_to_specialist"
    /\ classified.task = TextBlog
    /\ RouteSetsHit(TextBlog) = {2}
    /\ classified.specialist = "terrell"
    /\ calls_made = 2
    /\ Len(agents) > 0

\* C12: a text with keywords of at least two specialties and a
\* multi-indicator word makes _analyze_collaboration_need answer needs_help,
\* for every pair of specialties.
C12_TwoSpecialtiesWithIndicatorCollaborate ==
    classified.fn = "analyze_collaboration_need" =>
        ((Cardinality(NeedSetsHit(classified.task)) >= 2
          /\ HasMultiIndicator(classified.task))
         => classified.needs_help)

\* C13: needs_help is true exactly when required_agents has more than one
\* entry and a multi-indicator word occurs or there are more than two entries.
C13_NeedsHelpFormula ==
    classified.fn = "analyze_collaboration_need" =>
        (classified.needs_help <=>
            (/\ Len(classified.required_agents) > 1
             /\ (HasMultiIndicator(classified.task)
                 \/ Len(classified.required_agents) > 2)))

\* two specialties without a multi-indicator word: no collaboration
C13_Witness ==
    /\ classified.fn = "analyze_collaboration_need"
    /\ Len(classified.required_agents) = 2
    /\ ~HasMultiIndicator(classified.task)
    /\ ~classified.needs_help

\* C20: required_agents holds the label of every specialty rule with a
\* keyword in the text, once each, in the order of the rules.
C20_RequiredAgentsHoldsEveryHit ==
    classified.fn = "analyze_collaboration_need" =>
        LET Hit(specialty) == NeedSetHit(classified.task, specialty)
        IN  classified.required_agents = SelectSeq(Specialties, Hit)

----------------------------------------------------------------------------
(* Properties of a collaboration run                                        *)

\* the route_task call went through _execute_collaboration
CollaborationRun(call) == InSeq("execute_collaboration", call.calls)

\* C14: a collaboration run with exactly one successful contribution returns
\* the text of that contribution, as execute returned it, as final_result,
\* and makes no synthesis call to the provider.
C14_SingleContributionReturnedUnchanged ==
    \A k \in 1..Len(route_log) :
        (CollaborationRun(route_log[k]) /\ Len(route_log[k].contributions) = 1) =>
            /\ route_log[k].success
            /\ route_log[k].final.text = route_log[k].contributions[1].contribution
            /\ route_log[k].final.llm_calls = 0
            /\ \E e \in 1..Len(route_log[k].executed) :
                  /\ route_log[k].executed[e].success
                  /\ route_log[k].executed[e].content = route_log[k].final.text

\* a collaboration run ended with the draft of its only contributor
C14_Witness ==
    \E k \in 1..Len(route_log) :
        /\ CollaborationRun(route_log[k])
        /\ Len(route_log[k].contributions) = 1
        /\ route_log[k].final.text = DraftText
        /\ route_log[k].collaboration

\* C15: a collaboration run in which every selected runtime fails returns the
\* failure "All agents failed ..." and never invokes the synthesis.
C15_AllFailedNoSynthesis ==
    \A k \in 1..Len(route_log) :
        (/\ CollaborationRun(route_log[k])
         /\ \A e \in 1..Len(route_log[k].executed) : ~route_log[k].executed[e].success)
        => /\ ~route_log[k].success
           /\ route_log[k].error = "All agents failed to complete their tasks"
           /\ ~InSeq("synthesize", route_log[k].calls)
           /\ route_log[k].final = NoFinal

\* a collaboration run whose only selected runtime failed its task
C15_Witness ==
    \E k \in 1..Len(route_log) :
        /\ CollaborationRun(route_log[k])
        /\ Len(route_log[k].executed) >= 1
        /\ \A e \in 1..Len(route_log[k].executed) : ~route_log[k].executed[e].success
        /\ \E i \in 1..Len(agents) : agents[i].tasks_failed = 1

----------------------------------------------------------------------------
(* Properties of one runtime                                                *)

\* the send_message_to_agent calls that executed the runtime inst
CallsOn(inst) ==
    {k \in 1..Len(chat_log) :
        Len(chat_log[k].executed) = 1 /\ chat_log[k].executed[1].inst = inst}

\* C16: every execute call found the runtime idle, made it busy, and left it
\* idle with no current task, on success and on failure; each call added one
\* to exactly one counter, so the counters sum to the number of calls.
C16_StatusAndCountersPerCall ==
    /\ \A i \in 1..Len(agents) :
          /\ agents[i].status = "idle"
          /\ agents[i].current_task = NoTask
          /\ agents[i].tasks_completed =
                Cardinality({k \in CallsOn(agents[i].inst) : chat_log[k].executed[1].success})
          /\ agents[i].tasks_failed =
                Cardinality({k \in CallsOn(agents[i].inst) : ~chat_log[k].executed[1].success})
          /\ agents[i].tasks_completed + agents[i].tasks_failed
                = Cardinality(CallsOn(agents[i].inst))
    /\ \A k \in 1..Len(chat_log) : \A e \in 1..Len(chat_log[k].executed) :
          /\ chat_log[k].executed[e].status_before = "idle"
          /\ chat_log[k].executed[e].status_during = "busy"

\* one runtime has finished two calls, one completed and one failed
C16_Witness ==
    \E i \in 1..Len(agents) :
        /\ agents[i].tasks_completed = 1
        /\ agents[i].tasks_failed = 1
        /\ Cardinality(CallsOn(agents[i].inst)) = 2

\* C17: execute never raises; when process_task fails (the provider call
\* that produces the answer raises) it returns success false with an error
\* description, and the registry and the other runtimes stay as they were.
C17_ExecuteNeverRaises ==
    /\ [](\A k \in 1..Len(chat_log) : \A e \in 1..Len(chat_log[k].executed) :
            /\ ~chat_log[k].executed[e].raised
            /\ chat_log[k].replies.s = "error" =>
                  (~chat_log[k].executed[e].success /\ chat_log[k].executed[e].error # "")
            /\ ~chat_log[k].executed[e].success => chat_log[k].executed[e].error # "")
    /\ [][Len(chat_log') > Len(chat_log) =>
            /\ Len(agents') = Len(agents)
            /\ \A i \in 1..Len(agents) :
                  /\ agents'[i].agent_id = agents[i].agent_id
                  /\ agents'[i].inst = agents[i].inst
                  /\ agents[i].agent_id # chat_log'[Len(chat_log')].agent_id
                        => agents'[i] = agents[i]]_vars

\* a call failed on a provider error while a second runtime was registered
C17_Witness ==
    /\ Len(agents) = 2
    /\ \E k \in 1..Len(chat_log) :
          /\ Len(chat_log[k].executed) = 1
          /\ chat_log[k].replies.s = "error"
          /\ ~chat_log[k].executed[1].success
          /\ chat_log[k].executed[1].error = "Exception"

\* C18: an answer of the provider that cannot be parsed never gives success
\* false: an unparsable tool decision gives the normal drafted response, an
\* unparsable parameter answer gives the plain "configure it" response
\* without tool marker; only a provider error makes a call fail.
C18_ParseFailureDegrades ==
    \A k \in 1..Len(chat_log) : \A e \in 1..Len(chat_log[k].executed) :
        LET x == chat_log[k].executed[e]
            replies == chat_log[k].replies
        IN  /\ (x.has_tools /\ replies.d = "garbage" /\ replies.s # "error") =>
                  (x.success /\ x.type = "response" /\ x.content = DraftText /\ ~x.marker)
            /\ (x.has_tools /\ replies.d = "json_true" /\ replies.s = "garbage") =>
                  (x.success /\ x.type = "response" /\ x.content = ConfigureText
                   /\ ~x.marker)
            /\ ~x.success => replies.s = "error"

\* a runtime with tools got an unparsable decision in one call and an
\* unparsable parameter answer in another
C18_Witness ==
    /\ \E k \in 1..Len(chat_log) :
          /\ Len(chat_log[k].executed) = 1
          /\ chat_log[k].executed[1].has_tools
          /\ chat_log[k].replies = [d |-> "garbage", s |-> "garbage"]
          /\ chat_log[k].executed[1].success
    /\ \E k \in 1..Len(chat_log) :
          /\ Len(chat_log[k].executed) = 1
          /\ chat_log[k].replies = [d |-> "json_true", s |-> "garbage"]
          /\ chat_log[k].executed[1].content = ConfigureText

----------------------------------------------------------------------------
(* Property of the tool marker                                              *)

\* C19: _handle_tool_request recovers from the reply the tool name and the
\* parameter object that _handle_tool_usage embedded in it, for every name
\* and every parameter object.
C19_MarkerRoundTrip ==
    parsed # NoParsed =>
        /\ parsed.outcome = "parsed"
        /\ parsed.tool_name = tool_reply.tool_name
        /\ parsed.params = tool_reply.tool_params

----------------------------------------------------------------------------
(* Properties of the selection of specialists                               *)

\* the runtime of agent_id declares a capability tag of the specialty
MatchesSpecialty(agent_id, specialty) ==
    RowCapabilities[agent_id] \cap SpecialtyTags[specialty] # {}

\* the first runtime, in registration order, that matches the specialty
FirstMatch(ids, specialty) ==
    IF \E i \in 1..Len(ids) : MatchesSpecialty(ids[i], specialty)
    THEN ids[CHOOSE i \in 1..Len(ids) :
                 /\ MatchesSpecialty(ids[i], specialty)
                 /\ \A j \in 1..(i - 1) : ~MatchesSpecialty(ids[j], specialty)]
    ELSE NoAgent

\* the runtimes matched by the required specialties, in the order of the
\* specialties, each runtime once
RECURSIVE MatchedRuntimes(_, _, _, _)
MatchedRuntimes(ids, required_agents, i, acc) ==
    IF i > Len(required_agents) THEN acc
    ELSE LET agent_id == FirstMatch(ids, required_agents[i])
         IN  MatchedRuntimes(ids, required_agents, i + 1,
                             IF agent_id # NoAgent /\ ~InSeq(agent_id, acc)
                             THEN Append(acc, agent_id) ELSE acc)

\* the runtimes matched in the collaboration run call
MatchedIn(call) ==
    MatchedRuntimes(call.ids, AnalysisOf[call.user_query].required_agents, 1, <<>>)

ExecutedIds(call) == [e \in 1..Len(call.executed) |-> call.executed[e].agent_id]

\* C21: in a collaboration run every runtime matched by a required specialty
\* (the first registered runtime declaring a capability tag of the specialty)
\* is executed, and the primary runtime runs alone only when no registered
\* runtime matches any required specialty.
C21_MatchedSpecialistsExecute ==
    \A k \in 1..Len(route_log) :
        CollaborationRun(route_log[k]) =>
            /\ \A i \in 1..Len(MatchedIn(route_log[k])) :
                  InSeq(MatchedIn(route_log[k])[i], ExecutedIds(route_log[k]))
            /\ ExecutedIds(route_log[k]) = <<route_log[k].ids[1]>>
                  => \/ MatchedIn(route_log[k]) = <<>>
                     \/ MatchedIn(route_log[k]) = <<route_log[k].ids[1]>>

\* the contributions the executions of the run give: one per execute call
\* that succeeded, in the order of the calls
ContributionsOf(call) ==
    LET Succeeded(e) == e.success
        done == SelectSeq(call.executed, Succeeded)
    IN  [i \in 1..Len(done) |->
            [agent_id |-> done[i].agent_id, contribution |-> done[i].content]]

\* the runtimes the run has to execute: the matched ones, or the primary
SelectedIn(call) ==
    IF MatchedIn(call) = <<>> THEN <<call.ids[1]>> ELSE MatchedIn(call)

\* C22: in a collaboration run the selected runtimes execute one after
\* another in the order their specialties were matched, each found idle; a
\* failed runtime is skipped and the later ones still execute; the
\* contributions are those of the selected runtimes that succeeded, in that
\* order, at most one per runtime.
C22_SelectedRunInMatchOrder ==
    \A k \in 1..Len(route_log) :
        CollaborationRun(route_log[k]) =>
            /\ ExecutedIds(route_log[k]) = SelectedIn(route_log[k])
            /\ \A e \in 1..Len(route_log[k].executed) :
                  /\ route_log[k].executed[e].status_before = "idle"
                  /\ route_log[k].executed[e].status_during = "busy"
            /\ route_log[k].contributions = ContributionsOf(route_log[k])
            /\ \A i, j \in 1..Len(route_log[k].contributions) :
                  route_log[k].contributions[i].agent_id
                      = route_log[k].contributions[j].agent_id => i = j

\* whatever the selection, the executions of a run find their runtime idle and
\* the contributions are those of the executions that succeeded
ExecutedRunsInOrder ==
    \A k \in 1..Len(route_log) :
        CollaborationRun(route_log[k]) =>
            /\ \A e \in 1..Len(route_log[k].executed) :
                  /\ route_log[k].executed[e].status_before = "idle"
                  /\ route_log[k].executed[e].status_during = "busy"
            /\ route_log[k].contributions = ContributionsOf(route_log[k])

----------------------------------------------------------------------------
(* Properties of the synthesis                                              *)

\* text holds, from position p on, a section labelled with the contributor
\* of c and holding the text of c
SectionAt(text, p, c) ==
    /\ p + 1 + Len(c.contribution) <= Len(text)
    /\ text[p] = "###"
    /\ text[p + 1] = c.agent_id
    /\ \A j \in 1..Len(c.contribution) : text[p + 1 + j] = c.contribution[j]

\* text holds exactly one labelled section per contribution, in their order
OneSectionEach(text, contributions) ==
    /\ Cardinality({p \in 1..Len(text) : text[p] = "###"}) = Len(contributions)
    /\ \E pos \in [1..Len(contributions) -> 1..Len(text)] :
          /\ \A i \in 1..Len(contributions) : SectionAt(text, pos[i], contributions[i])
          /\ \A i \in 1..(Len(contributions) - 1) : pos[i] < pos[i + 1]

\* C23: with two or more contributions exactly one synthesis call goes to the
\* provider; when that call fails the run still returns success true and its
\* final_result is the manual concatenation: one labelled section per
\* contributor, in contribution order, each holding the contributor's text.
C23_SynthesisFallsBackToManual ==
    (synthesis.called /\ Len(synthesis.contributions) >= 2) =>
        /\ synthesis.final.llm_calls = 1
        /\ synthesis.success
        /\ synthesis.synthesis_reply = "error" =>
              /\ synthesis.final.text[1] = "**Team Collaboration Result**"
              /\ OneSectionEach(synthesis.final.text, synthesis.contributions)

\* the provider failed on the synthesis of two contributions, terrell's first
C23_Witness ==
    /\ synthesis.called
    /\ Len(synthesis.contributions) = 2
    /\ synthesis.contributions[1].agent_id = "terrell"
    /\ synthesis.contributions[1].contribution # synthesis.contributions[2].contribution
    /\ synthesis.synthesis_reply = "error"
    /\ synthesis.final.kind = "manual"

----------------------------------------------------------------------------
(* Properties of the defaults of the parameter validation                   *)

\* the schema entry of the parameter name
SchemaEntry(schema, name) == schema[CHOOSE i \in 1..Len(schema) : schema[i].name = name]

\* the value the validated payload carries for the parameter name
PayloadValue(payload, name) ==
    payload[CHOOSE i \in 1..Len(payload) : payload[i].name = name].value

\* C24: execute_tool fails on an absent parameter only if the parameter is
\* required and declares no default; an absent parameter that declares a
\* default, marked optional or required, is accepted and the validated
\* payload carries the default.
C24_AbsentWithDefaultAccepted ==
    \A c \in 1..Len(call_log) :
        LET call == call_log[c]
            schema == ToolTable[call.tool_id].schema
        IN  ToolTable[call.tool_id].webhook_url =>
              /\ (call.raised /\ call.error[1] = "Required parameter missing") =>
                    /\ SchemaEntry(schema, call.error[2]).required # "false"
                    /\ ~SchemaEntry(schema, call.error[2]).has_default
              /\ ~call.raised =>
                    \A i \in 1..Len(schema) :
                        (call.parameters[schema[i].name] = NoneV /\ schema[i].has_default)
                        => PayloadValue(executions[call.execution].request_payload,
                                        schema[i].name) = schema[i].default

----------------------------------------------------------------------------
(* Properties of the memory of a runtime                                    *)

\* the number of entries of the given type in memory
EntriesOfType(memory, type) ==
    Cardinality({j \in 1..Len(memory) : memory[j].type = type})

\* C25: every execute call appends exactly one start-of-task entry and
\* exactly one end-of-task entry to the memory of its runtime, when the task
\* succeeds and when it fails: a runtime that executed n tasks (fewer than
\* the memory holds) has n entries of each kind.
C25_StartAndEndEntryPerCall ==
    \A i \in 1..Len(agents) :
        /\ EntriesOfType(agents[i].memory, "task_start")
              = Cardinality(CallsOn(agents[i].inst))
        /\ Len(agents[i].memory) - EntriesOfType(agents[i].memory, "task_start")
              = Cardinality(CallsOn(agents[i].inst))

\* C26: the memory of a runtime holds at most 20 entries, and they are the
\* interactions added last to that runtime, in the order they were added.
C26_MemoryHoldsLastTwenty ==
    \A i \in 1..Len(agents) :
        LET history == AddedTo(agents[i].inst)
            kept == IF Len(history) > 20 THEN 20 ELSE Len(history)
        IN  /\ Len(agents[i].memory) = kept
            /\ \A j \in 1..kept :
                  agents[i].memory[j] = history[Len(history) - kept + j].interaction

\* a runtime was given more than 20 interactions, a failed task and a note
\* among them
C26_Witness ==
    \E i \in 1..Len(agents) :
        /\ Len(AddedTo(agents[i].inst)) > 21
        /\ Len(agents[i].memory) = 20
        /\ agents[i].tasks_failed = 1
        /\ \E j \in 1..20 : agents[i].memory[j].type = "note"

----------------------------------------------------------------------------
(* Properties of the routing to a single specialist                         *)

\* the runtime a request is routed to when no collaboration is needed: the
\* specialist the classifier names if it is registered, else the primary
RoutedTo(call) ==
    IF SpecialistOf[call.user_query] # NoAgent /\ InSeq(SpecialistOf[call.user_query], call.ids)
    THEN SpecialistOf[call.user_query]
    ELSE call.ids[1]

\* C27: with two or more runtimes registered and no collaboration needed,
\* route_task executes exactly one runtime: the specialist the classifier
\* names if it is registered, and else the first registered runtime; the
\* request does not fail for a missing specialist.
C27_SingleSpecialistOrPrimary ==
    \A k \in 1..Len(route_log) :
        (Len(route_log[k].ids) >= 2 /\ ~AnalysisOf[route_log[k].user_query].needs_help) =>
            /\ Len(route_log[k].executed) = 1
            /\ route_log[k].executed[1].agent_id = RoutedTo(route_log[k])
            /\ route_log[k].error # "Agent not found"
            /\ ~route_log[k].collaboration

\* "complaint" was routed with jasmine and terrell registered: amara is not
\* registered and the first runtime executed it
C27_Witness ==
    \E k \in 1..Len(route_log) :
        /\ route_log[k].user_query = TextComplaint
        /\ Len(route_log[k].ids) = 2
        /\ SpecialistOf[TextComplaint] = "amara"
        /\ route_log[k].executed[1].agent_id = route_log[k].ids[1]
        /\ route_log[k].executed[1].task_id = "single-task"
        /\ route_log[k].success

\* a registered specialist that is not the primary executed the request
C27_SpecialistWitness ==
    \E k \in 1..Len(route_log) :
        /\ Len(route_log[k].ids) = 2
        /\ route_log[k].executed # <<>>
        /\ route_log[k].executed[1].agent_id = route_log[k].ids[2]
        /\ route_log[k].executed[1].task_id = "specialist-task"

----------------------------------------------------------------------------
(* Properties of the fields of an execution row                             *)

\* C29: in every state the outcome fields of a ToolExecution row agree with
\* its status: a success row has a response payload and no error message, a
\* failed or timeout row has an error message, and completed_at is set
\* exactly when the status is not pending.
C29_OutcomeFieldsAgreeWithStatus ==
    \A e \in 1..Len(executions) :
        /\ executions[e].status = "success" =>
              /\ executions[e].response_data # NoneV
              /\ executions[e].error_message = <<>>
        /\ executions[e].status \in {"failed", "timeout"} =>
              executions[e].error_message # <<>>
        /\ executions[e].completed_at <=> executions[e].status # "pending"

----------------------------------------------------------------------------
(* Properties of the owner endpoints                                        *)

\* C30: when an owner operation (create, update, delete, toggle) has changed
\* the descriptor of an agent_id, the registry holds a runtime for that
\* agent_id if and only if the store holds an active descriptor for it.
C30_RegistryFollowsStore ==
    [][\A agent_id \in AgentIds :
          configs'[agent_id] # configs[agent_id] =>
              (Registered(agents', agent_id)
                  <=> (configs'[agent_id].present /\ configs'[agent_id].is_active))]_vars

====
